---- MODULE Spec2Model ----
(***************************************************************************)
(* Model of the redshirt core scheduler: the collection of processes       *)
(* (core/src/scheduler/processes.rs) on top of the per-process WebAssembly *)
(* state machine (core/src/scheduler/vm.rs).                               *)
(*                                                                         *)
(* Rust indices are kept 0-based: thread(sm, 0) is the first thread.       *)
(* Option<T> is a sequence of length 0 (None) or 1 (Some(x)).              *)
(***************************************************************************)
EXTENDS Integers, Sequences, FiniteSets, TLC

\* ---------------------------------------------------------------------
\* Bounds of the exploration
\* ---------------------------------------------------------------------
\* number of Pids the pid pool may hand out
MaxPids == 2
\* number of ThreadIds the tid pool may hand out
MaxTids == 2
\* number of reserve_pid calls made on the builder
MaxReserved == 2

\* ---------------------------------------------------------------------
\* Option, values, signatures
\* ---------------------------------------------------------------------
None == <<>>
Some(x) == <<x>>
is_some(o) == o # <<>>
is_none(o) == o = <<>>
unwrap(o) == o[1]

I32(n) == <<"I32", n>>
I64(n) == <<"I64", n>>
value_type(v) == v[1]

Sig(params, ret) == [params |-> params, ret |-> ret]

\* InterfaceId: a 32-byte hash or a name
Hash(h) == <<"Hash", h>>
Bytes(name) == <<"Bytes", name>>

\* an InterfaceHash is [u8; 32]
HashLen == 32
ZeroHash == [i \in 1..HashLen |-> 0]

\* module names, as the sequences of their characters
EmptyName == <<>>
WasiUnstable == <<"w", "a", "s", "i", "_", "u", "n", "s", "t", "a", "b", "l", "e">>

\* Signature::matches_wasmi: parameters and result compared pointwise
matches_wasmi(expected, obtained) ==
    /\ expected.params = obtained.params
    /\ expected.ret = obtained.ret

\* ---------------------------------------------------------------------
\* IdPool
\* ---------------------------------------------------------------------
\* The pool is the number of ids handed out so far; ids start at 1.
IdPool_new == 0
assign(pool) == [id |-> pool + 1, pool |-> pool + 1]

\* ---------------------------------------------------------------------
\* WebAssembly modules given to execute (inputs).  A function body is a
\* sequence of instructions; control leaves the interpreter at a call of
\* an import, at a return or at a trap.
\* ---------------------------------------------------------------------
Call(k, args) == [op |-> "call", imp |-> k, args |-> args]
ReturnConst(v) == [op |-> "return_const", v |-> v]
ReturnLast == [op |-> "return_last"]
Unreachable == [op |-> "unreachable"]
Br(n) == [op |-> "br", to |-> n]

\* an import: the module name and field name written in the WebAssembly
\* module, and the signature of the imported function
ImportTest == [module_name |-> EmptyName, name |-> "test", sig |-> Sig(<<>>, Some("I32"))]
ImportMissing == [module_name |-> WasiUnstable, name |-> "missing", sig |-> Sig(<<>>, None)]
ImportOtherSig == [module_name |-> EmptyName, name |-> "other", sig |-> Sig(<<>>, None)]

\* main: index (0-based) of the function exported as `main`, None if the
\* module exports no `main`.  memory: number of pages of the linear memory
\* exported as `memory`, None if the module exports no memory.
Modules ==
    [ main_executes |->
        [imports |-> <<>>, funcs |-> << <<ReturnConst(I32(5))>> >>, main |-> Some(0),
         memory |-> None],
      no_main |->
        [imports |-> <<>>, funcs |-> << <<ReturnConst(I32(5))>> >>, main |-> None,
         memory |-> None],
      external_call |->
        [imports |-> <<ImportTest>>,
         funcs |-> << <<Call(0, <<>>), ReturnLast>> >>, main |-> Some(0),
         memory |-> Some(1)],
      poisoning |->
        [imports |-> <<>>, funcs |-> << <<Unreachable>> >>, main |-> Some(0),
         memory |-> None],
      call_loop |->
        [imports |-> <<ImportTest>>,
         funcs |-> << <<Call(0, <<I32(1)>>), Br(0)>>,
                      <<Call(0, <<>>), ReturnLast>>,
                      <<Unreachable>> >>, main |-> Some(0),
         memory |-> Some(1)],
      unresolved |->
        [imports |-> <<ImportMissing>>,
         funcs |-> << <<Call(0, <<>>), ReturnLast>> >>, main |-> Some(0),
         memory |-> None],
      mismatch |->
        [imports |-> <<ImportTest, ImportOtherSig>>,
         funcs |-> << <<Call(0, <<>>), ReturnLast>> >>, main |-> Some(0),
         memory |-> None] ]

ModuleNames == DOMAIN Modules

\* user data given by the caller
PudValues == {"pa"}
\* user data of a main thread (execute) and of a started thread (start_thread)
MainTudValues == {"ta"}
TudValues == {"tb"}
\* values the caller passes to resume
ResumeValues == {None, Some(I32(2227)), Some(I64(7))}
\* function indices the caller passes to start_thread
FnIndices == {0, 1, 2}

\* ---------------------------------------------------------------------
\* State
\* ---------------------------------------------------------------------
VARIABLES
    pid_pool,               \* ProcessesCollection::pid_pool
    tid_pool,               \* ProcessesCollection::tid_pool
    processes,              \* ProcessesCollection::processes: Pid -> Process
    extrinsics,             \* ProcessesCollection::extrinsics: usize -> TExtr
    extrinsics_id_assign,   \* (interface, f_name) -> (index, signature)
    built,                  \* FALSE while still a ProcessesCollectionBuilder
    crashed,                \* TRUE once a call has panicked
    last,                   \* the last API call and what it returned
    reserved,               \* Pids returned by reserve_pid
    returned_pids,          \* Pids returned by successful execute calls, in order
    created,                \* threads ever created: sequence of [tid, pid]
    finished,               \* Pids for which run() returned ProcessFinished
    aborted,                \* Pids on which abort was called
    hist,                   \* per ThreadId: [st, v], st one of "new", "interrupted",
                            \* "resumed" (v: the value given to resume) or "dead"
    focus,                  \* ThreadId the caller is waiting for by calling run() only, or 0
    vm,                     \* a vm::ProcessStateMachine used on its own, None before
                            \* it is made
    reactor,                \* syscalls: REACTOR, the futures of message_response and
                            \* the locals of background_thread
    tcp                     \* kernel: a TcpState and the events it has returned

vars == <<pid_pool, tid_pool, processes, extrinsics, extrinsics_id_assign, built,
          crashed, last, reserved, returned_pids, created, finished, aborted,
          hist, focus, vm, reactor, tcp>>

coll == <<pid_pool, tid_pool, processes, extrinsics, extrinsics_id_assign>>
history == <<reserved, returned_pids, created, finished, aborted, hist>>

NoCall ==
    [op |-> "none", outcome |-> "none", pid |-> 0, tid |-> 0, thread_index |-> 0,
     value |-> None, injected |-> None, user_data |-> "", dead_threads |-> <<>>,
     token |-> 0, params |-> <<>>, result |-> ""]

\* ---------------------------------------------------------------------
\* The reactor of the syscalls crate and the TCP state of the kernel, as
\* they are made
\* ---------------------------------------------------------------------
\* number of futures made by message_response, and number of times they
\* push themselves to the reactor
MaxFutures == 2
MaxPushes == 3
\* number of Open messages handled, and number of messages with an event
\* id handled
MaxSockets == 2
MaxEvents == 3

\* lazy_static REACTOR with no element, the background thread at the top
\* of its loop with message_ids = vec![0] and no waker; no future yet.
\* next_id is the id that the kernel gives to the next message emitted,
\* woken tells that a FutexWake has reached the waiting background
\* thread, answered is the set of messages whose response was delivered,
\* latest[m] is the future whose registration for m was processed last.
Reactor_new ==
    [new_elems |-> <<>>, lock |-> "free",
     message_ids |-> <<0>>, wakers |-> <<>>, wait_notify |-> 0, pc |-> "lock",
     futures |-> [f \in 1..MaxFutures |->
                    [st |-> "none", msg_id |-> 0, sink |-> <<>>, woken |-> FALSE,
                     output |-> <<>>]],
     next_id |-> 1, woken |-> FALSE, answered |-> {}, pushes |-> 0,
     latest |-> <<>>]

\* TcpState::new(); events is the sequence of the TcpResponse values that
\* next_event has returned, handled the number of messages that came with
\* an event id
TcpState_new == [next_socket_id |-> 1, sockets |-> <<>>, events |-> <<>>, handled |-> 0]

\* ---------------------------------------------------------------------
\* Result<T, E>
\* ---------------------------------------------------------------------
Ok(x) == [ok |-> TRUE, v |-> x]
Err(e) == [ok |-> FALSE, e |-> e]

\* HashMap::insert and HashMap::remove
insert(map, k, v) == [x \in (DOMAIN map) \cup {k} |-> IF x = k THEN v ELSE map[x]]
remove(map, k) == [x \in (DOMAIN map) \ {k} |-> map[x]]

Min(S) == CHOOSE x \in S : \A y \in S : x <= y

\* ---------------------------------------------------------------------
\* ProcessesCollectionBuilder
\* ---------------------------------------------------------------------
\* with_extrinsic that replaces the entry of a pair registered before
with_extrinsic_replace(b, interface, f_name, signature, token) ==
    LET index == Cardinality(DOMAIN b.extrinsics)
    IN  Ok([extrinsics |-> insert(b.extrinsics, index, token),
            extrinsics_id_assign |->
                insert(b.extrinsics_id_assign, <<interface, f_name>>,
                       <<index, signature>>)])

\* with_extrinsic that numbers the entries from 1
with_extrinsic_from_one(b, interface, f_name, signature, token) ==
    LET index == Cardinality(DOMAIN b.extrinsics) + 1
    IN  IF <<interface, f_name>> \in DOMAIN b.extrinsics_id_assign
        THEN Err("panic")
        ELSE Ok([extrinsics |-> insert(b.extrinsics, index, token),
                 extrinsics_id_assign |->
                    insert(b.extrinsics_id_assign, <<interface, f_name>>,
                           <<index, signature>>)])

\* with_extrinsic on the pair of tables b = [extrinsics, extrinsics_id_assign];
\* Err("panic") on a duplicate (interface, f_name)
with_extrinsic(b, interface, f_name, signature, token) ==
    LET index == Cardinality(DOMAIN b.extrinsics)
    IN  IF <<interface, f_name>> \in DOMAIN b.extrinsics_id_assign
        THEN Err("panic")
        ELSE Ok([extrinsics |-> insert(b.extrinsics, index, token),
                 extrinsics_id_assign |->
                    insert(b.extrinsics_id_assign, <<interface, f_name>>,
                           <<index, signature>>)])

\* ProcessesCollectionBuilder::default()
Builder_default == [extrinsics |-> <<>>, extrinsics_id_assign |-> <<>>]

\* the registrations made on the builder: the host function of the tests
\* (index 1) after another host function (index 0), both under the
\* interface whose hash is all zeroes
Registered ==
    with_extrinsic(
        with_extrinsic(Builder_default, Hash(ZeroHash), "other", Sig(<<"I32">>, None), 1234).v,
        Hash(ZeroHash), "test", Sig(<<>>, Some("I32")), 9876).v

\* ---------------------------------------------------------------------
\* vm::ProcessStateMachine
\* ---------------------------------------------------------------------
\* A linear memory of the given number of pages: every byte is 0 but the
\* bytes written, kept by address
MemoryInstance(pages) == [pages |-> pages, bytes |-> <<>>]

\* ProcessStateMachine::is_executing: something is being executed and is
\* paused
is_executing(sm) == sm.threads # <<>>

num_threads(sm) == Len(sm.threads)
thread(sm, index) == IF index < Len(sm.threads) THEN Some(sm.threads[index + 1]) ELSE None
into_user_datas(sm) == [i \in 1..Len(sm.threads) |-> sm.threads[i].user_data]

\* a thread of the state machine, paused at the entry of function f
ThreadState(f, user_data) ==
    [user_data |-> user_data, func |-> f, pc |-> 0, interrupted |-> FALSE,
     acc |-> None, expected |-> None]

\* the alphabet of bs58 (Bitcoin): the digit of a character is its place
\* in the alphabet, counted from 0
Alphabet ==
    <<"1", "2", "3", "4", "5", "6", "7", "8", "9",
      "A", "B", "C", "D", "E", "F", "G", "H", "J", "K", "L", "M", "N", "P", "Q",
      "R", "S", "T", "U", "V", "W", "X", "Y", "Z",
      "a", "b", "c", "d", "e", "f", "g", "h", "i", "j", "k", "m", "n", "o", "p",
      "q", "r", "s", "t", "u", "v", "w", "x", "y", "z">>

\* the digit of a character, 255 for a character outside the alphabet
bs58_digit(c) ==
    IF \E d \in 1..Len(Alphabet) : Alphabet[d] = c
    THEN (CHOOSE d \in 1..Len(Alphabet) : Alphabet[d] = c) - 1
    ELSE 255

\* the bytes written so far (least significant first) times 58 plus val,
\* from byte i on: the new bytes and what is left of val.  Each step
\* of the loop works on the values that the step before has left.
RECURSIVE bs58_carry(_, _, _)
bs58_carry(output, i, val) ==
    IF i > Len(output) THEN <<output, val>>
    ELSE CHOOSE r \in {bs58_carry([output EXCEPT ![i] = v % 256], i + 1, v \div 256) :
                            v \in {val + output[i] * 58}} : TRUE

\* what is left of val is written in new bytes; an error when the buffer
\* of cap bytes is full
RECURSIVE bs58_grow(_, _, _)
bs58_grow(output, val, cap) ==
    IF val = 0 THEN Ok(output)
    ELSE IF Len(output) >= cap THEN Err("BufferTooSmall")
    ELSE CHOOSE r \in {bs58_grow(o, val \div 256, cap) :
                            o \in {Append(output, val % 256)}} : TRUE

\* one character of the input is added to the bytes written so far
bs58_push(output, c, cap) ==
    IF bs58_digit(c) = 255 THEN Err("InvalidCharacter")
    ELSE CHOOSE r \in {bs58_grow(carried[1], carried[2], cap) :
                            carried \in {bs58_carry(output, 1, bs58_digit(c))}} : TRUE

\* the first n characters of the input, one after the other; the first
\* error ends the loop
RECURSIVE bs58_digits(_, _, _)
bs58_digits(input, n, cap) ==
    IF n = 0 THEN Ok(<<>>)
    ELSE CHOOSE r \in {IF done.ok THEN bs58_push(done.v, input[n], cap) ELSE done :
                            done \in {bs58_digits(input, n - 1, cap)}} : TRUE

\* each character "1" at the head of the input is one more zero byte
RECURSIVE bs58_zeros(_, _, _, _)
bs58_zeros(input, i, output, cap) ==
    IF i > Len(input) \/ input[i] # Alphabet[1] THEN Ok(output)
    ELSE IF Len(output) >= cap THEN Err("BufferTooSmall")
    ELSE CHOOSE r \in {bs58_zeros(input, i + 1, o, cap) : o \in {Append(output, 0)}} : TRUE

reverse(s) == [i \in 1..Len(s) |-> s[Len(s) + 1 - i]]

\* bs58::decode(input).into(buffer of cap bytes): the bytes decoded, most
\* significant first, their number being the n of Ok(n)
bs58_decode(input, cap) ==
    CHOOSE r \in
        {IF zeros.ok THEN Ok(reverse(zeros.v)) ELSE zeros :
            zeros \in {IF digits.ok THEN bs58_zeros(input, 1, digits.v, cap) ELSE digits :
                          digits \in {bs58_digits(input, Len(input), cap)}}} : TRUE

\* buf_out[(32 - n)..].copy_from_slice(&buf_interm[..n]) on a buffer of
\* zeros
right_aligned(decoded) ==
    [i \in 1..HashLen |-> IF i > HashLen - Len(decoded)
                          THEN decoded[i - (HashLen - Len(decoded))] ELSE 0]

\* InterfaceHash::from_str
InterfaceHash_from_str(s) ==
    CHOOSE r \in
        {IF tmp_out.ok
         THEN Ok([i \in 1..HashLen |-> IF i >= HashLen - Len(tmp_out.v) + 1
                                       THEN tmp_out.v[i - HashLen + Len(tmp_out.v)]
                                       ELSE 0])
         ELSE tmp_out : tmp_out \in {bs58_decode(s, HashLen)}} : TRUE

\* resolve_func that writes the decoded bytes at the head of the hash
interface_hash_left_aligned(module_name) ==
    CHOOSE r \in
        {IF decoded.ok
         THEN Hash([i \in 1..HashLen |-> IF i <= Len(decoded.v) THEN decoded.v[i] ELSE 0])
         ELSE Bytes(module_name) : decoded \in {bs58_decode(module_name, HashLen)}} : TRUE

\* ImportResolve::resolve_func: the module name of an import is taken for
\* the base58 form of an interface hash when it decodes, for a name
\* otherwise
interface_hash(module_name) ==
    CHOOSE r \in
        {IF decoded.ok THEN Hash(right_aligned(decoded.v)) ELSE Bytes(module_name) :
            decoded \in {bs58_decode(module_name, HashLen)}} : TRUE

\* resolve that does not compare the signatures
resolve_any_signature(id_assign, interface, function, obtained_signature) ==
    IF <<interface, function>> \in DOMAIN id_assign
    THEN Ok(id_assign[<<interface, function>>][1])
    ELSE Err("unresolved")

\* closure given to ProcessStateMachine::new by execute: index of the
\* extrinsic registered for the import, if its signature matches
resolve(id_assign, interface, function, obtained_signature) ==
    IF /\ <<interface, function>> \in DOMAIN id_assign
       /\ matches_wasmi(id_assign[<<interface, function>>][2], obtained_signature)
    THEN Ok(id_assign[<<interface, function>>][1])
    ELSE Err("unresolved")

\* ProcessStateMachine::new that does not start main
ProcessStateMachine_new_stopped(module, main_thread_data, id_assign) ==
    LET m == Modules[module]
        res == [i \in 1..Len(m.imports) |->
                    resolve(id_assign, interface_hash(m.imports[i].module_name),
                            m.imports[i].name,
                            m.imports[i].sig)]
    IN  IF \E i \in 1..Len(m.imports) : ~res[i].ok
        THEN Err("Interpreter")
        ELSE Ok([module |-> module,
                 memory |-> IF is_some(m.memory)
                            THEN Some(MemoryInstance(unwrap(m.memory))) ELSE None,
                 imports |-> [i \in 1..Len(m.imports) |-> res[i].v],
                 threads |-> <<>>,
                 is_poisoned |-> FALSE])

\* ProcessStateMachine::new that starts the first function of the module
\* when there is no main
ProcessStateMachine_new_first(module, main_thread_data, id_assign) ==
    LET m == Modules[module]
        res == [i \in 1..Len(m.imports) |->
                    resolve(id_assign, interface_hash(m.imports[i].module_name),
                            m.imports[i].name,
                            m.imports[i].sig)]
    IN  IF \E i \in 1..Len(m.imports) : ~res[i].ok
        THEN Err("Interpreter")
        ELSE Ok([module |-> module,
                 memory |-> IF is_some(m.memory)
                            THEN Some(MemoryInstance(unwrap(m.memory))) ELSE None,
                 imports |-> [i \in 1..Len(m.imports) |-> res[i].v],
                 threads |-> IF is_some(m.main)
                             THEN <<ThreadState(unwrap(m.main), main_thread_data)>>
                             ELSE <<ThreadState(0, main_thread_data)>>,
                 is_poisoned |-> FALSE])

\* ProcessStateMachine::new
ProcessStateMachine_new(module, main_thread_data, id_assign) ==
    LET m == Modules[module]
        res == [i \in 1..Len(m.imports) |->
                    resolve(id_assign, interface_hash(m.imports[i].module_name),
                            m.imports[i].name,
                            m.imports[i].sig)]
    IN  IF \E i \in 1..Len(m.imports) : ~res[i].ok
        THEN Err("Interpreter")
        ELSE Ok([module |-> module,
                 memory |-> IF is_some(m.memory)
                            THEN Some(MemoryInstance(unwrap(m.memory))) ELSE None,
                 imports |-> [i \in 1..Len(m.imports) |-> res[i].v],
                 threads |-> IF is_some(m.main)
                             THEN <<ThreadState(unwrap(m.main), main_thread_data)>>
                             ELSE <<>>,
                 is_poisoned |-> FALSE])

\* position of the next instruction that leaves the interpreter
RECURSIVE fetch(_, _)
fetch(body, pc) == IF body[pc + 1].op = "br" THEN fetch(body, body[pc + 1].to) ELSE pc

remove_at(s, index) == [i \in 1..(Len(s) - 1) |-> IF i <= index THEN s[i] ELSE s[i + 1]]

\* Thread::run: runs thread `index` of the state machine until it calls an
\* import, returns or traps
run(sm, index, value) ==
    LET th == sm.threads[index + 1]
        m == Modules[sm.module]
        body == m.funcs[th.func + 1]
        obtained_ty == IF is_some(value) THEN Some(value_type(unwrap(value))) ELSE None
        bad == IF th.interrupted THEN th.expected # obtained_ty ELSE is_some(value)
        acc == IF th.interrupted THEN value ELSE th.acc
        pc == fetch(body, th.pc)
        ins == body[pc + 1]
    IN  IF sm.is_poisoned THEN Err("Poisoned")
        ELSE IF bad THEN Err("BadValueTy")
        ELSE IF ins.op = "call" THEN
            Ok([outcome |-> "Interrupted", thread_index |-> index,
                id |-> sm.imports[ins.imp + 1], params |-> ins.args,
                return_value |-> None, user_data |-> th.user_data,
                sm |-> [sm EXCEPT !.threads[index + 1] =
                          [th EXCEPT !.pc = pc + 1, !.interrupted = TRUE, !.acc = acc,
                                     !.expected = m.imports[ins.imp + 1].sig.ret]]])
        ELSE IF ins.op = "unreachable" THEN
            Ok([outcome |-> "Errored", thread_index |-> index,
                id |-> 0, params |-> <<>>,
                return_value |-> None, user_data |-> th.user_data,
                sm |-> [sm EXCEPT !.is_poisoned = TRUE]])
        ELSE
            Ok([outcome |-> "ThreadFinished", thread_index |-> index,
                id |-> 0, params |-> <<>>,
                return_value |-> IF ins.op = "return_const" THEN Some(ins.v) ELSE acc,
                user_data |-> th.user_data,
                sm |-> [sm EXCEPT !.threads = remove_at(sm.threads, index)]])

\* ProcessStateMachine::start_thread_by_id
start_thread_by_id(sm, fn_index, params, user_data) ==
    IF sm.is_poisoned THEN Err("Poisoned")
    ELSE IF fn_index >= Len(Modules[sm.module].funcs) THEN Err("SymbolNotFound")
    ELSE Ok([sm EXCEPT !.threads = Append(sm.threads, ThreadState(fn_index, user_data))])

\* Offsets and sizes are 32-bit numbers and the ends of ranges are usize
\* numbers (64 bits, a sum of two 32-bit numbers does not wrap).  A number
\* n is kept as <<n \div 65536, n % 65536>>: as many whole pages of 65536
\* bytes, and a rest.
Wide(pages, rest) == <<pages, rest>>
wide_add(a, b) == <<a[1] + b[1] + ((a[2] + b[2]) \div 65536), (a[2] + b[2]) % 65536>>
wide_gt(a, b) == a[1] > b[1] \/ (a[1] = b[1] /\ a[2] > b[2])
\* the number itself, for an address inside a memory
address(a) == a[1] * 65536 + a[2]

\* the byte of the memory at address a
byte_at(mem, a) == IF a \in DOMAIN mem.bytes THEN mem.bytes[a] ELSE 0

\* dma that refuses a range reaching the last byte of the memory
dma_end_inclusive(sm, start, end) ==
    IF is_none(sm.memory) THEN Err("panic")
    ELSE LET mem == unwrap(sm.memory)
             mem_sz == Wide(mem.pages, 0)
         IN  IF wide_gt(start, end) \/ ~wide_gt(mem_sz, end)
             THEN Err("()")
             ELSE Ok([i \in 1..(address(end) - address(start)) |->
                        byte_at(mem, address(start) + i - 1)])

\* ProcessStateMachine::dma with the closure of read_memory, on the range
\* start..end; unwrap panics when the module exports no memory
dma(sm, start, end) ==
    IF is_none(sm.memory) THEN Err("panic")
    ELSE LET mem == unwrap(sm.memory)
             mem_sz == Wide(mem.pages, 0)
         IN  IF wide_gt(start, end) \/ wide_gt(end, mem_sz)
             THEN Err("()")
             ELSE Ok([i \in 1..(address(end) - address(start)) |->
                        byte_at(mem, address(start) + i - 1)])

\* ProcessStateMachine::read_memory(offset, size): the range
\* offset..offset + size of the memory
read_memory(sm, offset, size) == dma(sm, offset, wide_add(offset, size))

\* write_memory that stores the first byte only
write_memory_first_byte(sm, offset, value) ==
    IF is_none(sm.memory) THEN Err("panic")
    ELSE LET mem == unwrap(sm.memory)
             first == address(offset)
             region == first..(first + Len(value) - 1)
         IN  IF wide_gt(wide_add(offset, Wide(0, Len(value))), Wide(mem.pages, 0))
             THEN Err("()")
             ELSE Ok([sm EXCEPT !.memory = Some([mem EXCEPT !.bytes =
                        [a \in DOMAIN mem.bytes \cup (region \cap {first}) |->
                            IF a \in region THEN value[a - first + 1]
                            ELSE mem.bytes[a]]])])

\* ProcessStateMachine::write_memory: MemoryInstance::set copies the bytes
\* when offset + len is within the memory; unwrap panics when the module
\* exports no memory
write_memory(sm, offset, value) ==
    IF is_none(sm.memory) THEN Err("panic")
    ELSE LET mem == unwrap(sm.memory)
             first == address(offset)
             region == first..(first + Len(value) - 1)
         IN  IF wide_gt(wide_add(offset, Wide(0, Len(value))), Wide(mem.pages, 0))
             THEN Err("()")
             ELSE Ok([sm EXCEPT !.memory = Some([mem EXCEPT !.bytes =
                        [a \in DOMAIN mem.bytes \cup region |->
                            IF a \in region THEN value[a - first + 1]
                            ELSE mem.bytes[a]]])])

\* ---------------------------------------------------------------------
\* vm::ProcessStateMachine used on its own: one invocation at a time
\* (execution), started by new when the module exports main
\* ---------------------------------------------------------------------
\* wasmi::FuncInvocation: function f, started at its entry
FuncInvocation(f) == [func |-> f, pc |-> 0, acc |-> None, expected |-> None]

\* ProcessStateMachine::is_executing and is_poisoned
vm_is_executing(sm) == is_some(sm.execution)
vm_is_poisoned(sm) == sm.is_poisoned

\* ProcessStateMachine::start_inner for the symbol main
start_inner(sm) ==
    IF sm.is_poisoned THEN [sm |-> sm, result |-> Err("Poisoned")]
    ELSE IF is_some(sm.execution) THEN [sm |-> sm, result |-> Err("AlreadyRunning")]
    ELSE IF is_none(Modules[sm.module].main)
         THEN [sm |-> sm, result |-> Err("SymbolNotFound")]
    ELSE [sm |-> [sm EXCEPT !.execution = Some(FuncInvocation(unwrap(Modules[sm.module].main))),
                            !.interrupted = FALSE],
          result |-> Ok("()")]

\* ProcessStateMachine::new(module, symbols), symbols being the closure of
\* execute on the table id_assign
vm_new(module, id_assign) ==
    LET m == Modules[module]
        res == [i \in 1..Len(m.imports) |->
                    resolve(id_assign, interface_hash(m.imports[i].module_name),
                            m.imports[i].name, m.imports[i].sig)]
        state_machine == [module |-> module,
                          imports |-> [i \in 1..Len(m.imports) |-> res[i].v],
                          memory |-> IF is_some(m.memory)
                                     THEN Some(MemoryInstance(unwrap(m.memory))) ELSE None,
                          execution |-> None,
                          interrupted |-> FALSE,
                          is_poisoned |-> FALSE]
    IN  IF \E i \in 1..Len(m.imports) : ~res[i].ok
        THEN Err("Interpreter")
        ELSE Ok(start_inner(state_machine).sm)

\* ProcessStateMachine::start: unimplemented!()
vm_start(sm, interface, function) ==
    [sm |-> sm, panic |-> TRUE, result |-> Err("panic")]

\* resume that forgets the invocation when the function calls an import
vm_resume_forgets(sm, value) ==
    IF is_none(sm.execution)
    THEN [sm |-> sm, panic |-> TRUE, result |-> Err("panic")]
    ELSE
    LET execution == unwrap(sm.execution)
        taken == [sm EXCEPT !.execution = None]
        m == Modules[sm.module]
        body == m.funcs[execution.func + 1]
        obtained_ty == IF is_some(value) THEN Some(value_type(unwrap(value))) ELSE None
        acc == IF sm.interrupted THEN value ELSE execution.acc
        pc == fetch(body, execution.pc)
        ins == body[pc + 1]
    IN  IF sm.interrupted /\ execution.expected # obtained_ty
        THEN [sm |-> taken, panic |-> FALSE, result |-> Err("BadValueTy")]
        ELSE IF ~sm.interrupted /\ is_some(value)
        THEN [sm |-> taken, panic |-> FALSE, result |-> Err("BadValueTy")]
        ELSE IF ins.op = "call" THEN
            [sm |-> [taken EXCEPT !.interrupted = TRUE],
             panic |-> FALSE,
             result |-> Ok([outcome |-> "Interrupted", id |-> sm.imports[ins.imp + 1],
                            params |-> ins.args, value |-> None])]
        ELSE IF ins.op = "unreachable" THEN
            [sm |-> [taken EXCEPT !.interrupted = TRUE, !.is_poisoned = TRUE],
             panic |-> FALSE,
             result |-> Ok([outcome |-> "Errored", id |-> 0, params |-> <<>>,
                            value |-> None])]
        ELSE
            [sm |-> [taken EXCEPT !.interrupted = TRUE],
             panic |-> FALSE,
             result |-> Ok([outcome |-> "Finished", id |-> 0, params |-> <<>>,
                            value |-> IF ins.op = "return_const" THEN Some(ins.v)
                                      ELSE acc])]

\* ProcessStateMachine::resume: the invocation is taken out of the state
\* machine first (unwrap panics when there is none) and is put back only
\* when the function calls an import
vm_resume(sm, value) ==
    IF is_none(sm.execution)
    THEN [sm |-> sm, panic |-> TRUE, result |-> Err("panic")]
    ELSE
    LET execution == unwrap(sm.execution)
        taken == [sm EXCEPT !.execution = None]
        m == Modules[sm.module]
        body == m.funcs[execution.func + 1]
        obtained_ty == IF is_some(value) THEN Some(value_type(unwrap(value))) ELSE None
        acc == IF sm.interrupted THEN value ELSE execution.acc
        pc == fetch(body, execution.pc)
        ins == body[pc + 1]
    IN  IF sm.interrupted /\ execution.expected # obtained_ty
        THEN [sm |-> taken, panic |-> FALSE, result |-> Err("BadValueTy")]
        ELSE IF ~sm.interrupted /\ is_some(value)
        THEN [sm |-> taken, panic |-> FALSE, result |-> Err("BadValueTy")]
        ELSE IF ins.op = "call" THEN
            [sm |-> [taken EXCEPT !.interrupted = TRUE,
                                  !.execution = Some([execution EXCEPT
                                        !.pc = pc + 1, !.acc = acc,
                                        !.expected = m.imports[ins.imp + 1].sig.ret])],
             panic |-> FALSE,
             result |-> Ok([outcome |-> "Interrupted", id |-> sm.imports[ins.imp + 1],
                            params |-> ins.args, value |-> None])]
        ELSE IF ins.op = "unreachable" THEN
            [sm |-> [taken EXCEPT !.interrupted = TRUE, !.is_poisoned = TRUE],
             panic |-> FALSE,
             result |-> Ok([outcome |-> "Errored", id |-> 0, params |-> <<>>,
                            value |-> None])]
        ELSE
            [sm |-> [taken EXCEPT !.interrupted = TRUE],
             panic |-> FALSE,
             result |-> Ok([outcome |-> "Finished", id |-> 0, params |-> <<>>,
                            value |-> IF ins.op = "return_const" THEN Some(ins.v)
                                      ELSE acc])]

\* ---------------------------------------------------------------------
\* ProcessesCollection: helpers
\* ---------------------------------------------------------------------
\* Order in which HashMap::iter_mut visits the entries.  The map hashes a
\* Pid to itself (BuildNoHashHasher), so the entries are visited by
\* ascending Pid.
RECURSIVE iter_order(_)
iter_order(S) == IF S = {} THEN <<>> ELSE <<Min(S)>> \o iter_order(S \ {Min(S)})

\* ready_to_run_thread_index without the test of value_back: the first
\* thread of the process, whether ready or not
ready_to_run_thread_index_any(proc) ==
    IF num_threads(proc.state_machine) = 0 THEN None ELSE Some(0)

\* Process::ready_to_run_thread_index
ready_to_run_thread_index(proc) ==
    LET ready == {n \in 0..(num_threads(proc.state_machine) - 1) :
                    is_some(unwrap(thread(proc.state_machine, n)).user_data.value_back)}
    IN  IF ready = {} THEN None ELSE Some(Min(ready))

\* the thread picked by run(): the first entry, in iteration order, that has
\* a thread ready to run
RECURSIVE find_ready(_, _)
find_ready(procs, entries) ==
    IF entries = <<>> THEN None
    ELSE LET i == ready_to_run_thread_index(procs[Head(entries)])
         IN  IF is_some(i) THEN Some(<<Head(entries), unwrap(i)>>)
             ELSE find_ready(procs, Tail(entries))

\* ProcessesCollection::pids
pids(procs) == DOMAIN procs

\* ProcessesCollection::process_by_id: the handle is the Pid of the entry
process_by_id(procs, pid) == IF pid \in DOMAIN procs THEN Some(pid) ELSE None

\* ProcessesCollection::thread_by_id: the inner loop stops at the first
\* thread of a process that carries the id, the outer loop goes on
RECURSIVE thread_by_id_loop(_, _, _, _)
thread_by_id_loop(procs, entries, id, loop_out) ==
    IF entries = <<>> THEN loop_out
    ELSE LET pid == Head(entries)
             sm == procs[pid].state_machine
             hits == {i \in 0..(num_threads(sm) - 1) :
                        unwrap(thread(sm, i)).user_data.thread_id = id}
         IN  thread_by_id_loop(procs, Tail(entries), id,
                IF hits = {} THEN loop_out ELSE Some(<<pid, Min(hits)>>))

\* thread_by_id that answers with the first thread of the owning process
thread_by_id_first(procs, id) ==
    LET loop_out == thread_by_id_loop(procs, iter_order(DOMAIN procs), id, None)
    IN  IF is_none(loop_out) THEN None
        ELSE Some([pid |-> unwrap(loop_out)[1], thread_index |-> 0])

thread_by_id(procs, id) ==
    LET loop_out == thread_by_id_loop(procs, iter_order(DOMAIN procs), id, None)
    IN  IF is_none(loop_out) THEN None
        ELSE Some([pid |-> unwrap(loop_out)[1], thread_index |-> unwrap(loop_out)[2]])

\* ProcessesCollectionThread::inner
inner(procs, handle) == thread(procs[handle.pid].state_machine, handle.thread_index)

\* ProcessesCollectionThread::tid and ProcessesCollectionThread::pid
handle_tid(procs, handle) == unwrap(inner(procs, handle)).user_data.thread_id
handle_pid(procs, handle) == handle.pid

\* ProcessesCollectionProc::read_memory and write_memory on the handle of
\* process pid
Proc_read_memory(procs, pid, offset, size) ==
    read_memory(procs[pid].state_machine, offset, size)
Proc_write_memory(procs, pid, offset, value) ==
    write_memory(procs[pid].state_machine, offset, value)

\* ProcessesCollectionThread::read_memory and write_memory on the handle of
\* a thread
Thread_read_memory(procs, handle, offset, size) ==
    read_memory(procs[handle.pid].state_machine, offset, size)
Thread_write_memory(procs, handle, offset, value) ==
    write_memory(procs[handle.pid].state_machine, offset, value)

\* (ThreadId, user data) of the given Thread datas, in order
ids_and_user_datas(datas) ==
    [i \in 1..Len(datas) |-> <<datas[i].thread_id, datas[i].user_data>>]

tids_of(dead) == {dead[i][1] : i \in 1..Len(dead)}

\* ---------------------------------------------------------------------
\* ProcessesCollection::execute on self = [pid_pool, tid_pool, processes]
\* ---------------------------------------------------------------------
\* execute whose main thread is not marked ready to run
execute_not_ready(self, id_assign, module, proc_user_data, main_thread_user_data) ==
    LET t == assign(self.tid_pool)
        main_thread_id == t.id
        main_thread_data == [user_data |-> main_thread_user_data,
                             thread_id |-> main_thread_id,
                             value_back |-> None]
        state_machine == ProcessStateMachine_new(module, main_thread_data, id_assign)
        p == assign(self.pid_pool)
        new_pid == p.id
        procs == insert(self.processes, new_pid,
                        [state_machine |-> state_machine.v,
                         user_data |-> proc_user_data])
    IN  IF ~state_machine.ok
        THEN [self |-> [self EXCEPT !.tid_pool = t.pool],
              result |-> Err(state_machine.e)]
        ELSE [self |-> [pid_pool |-> p.pool, tid_pool |-> t.pool, processes |-> procs],
              result |-> Ok([pid |-> unwrap(process_by_id(procs, new_pid)),
                             main_thread_id |-> main_thread_id])]

execute(self, id_assign, module, proc_user_data, main_thread_user_data) ==
    LET t == assign(self.tid_pool)
        main_thread_id == t.id
        main_thread_data == [user_data |-> main_thread_user_data,
                             thread_id |-> main_thread_id,
                             value_back |-> Some(None)]
        state_machine == ProcessStateMachine_new(module, main_thread_data, id_assign)
        p == assign(self.pid_pool)
        new_pid == p.id
        procs == insert(self.processes, new_pid,
                        [state_machine |-> state_machine.v,
                         user_data |-> proc_user_data])
    IN  IF ~state_machine.ok
        THEN [self |-> [self EXCEPT !.tid_pool = t.pool],
              result |-> Err(state_machine.e)]
        ELSE [self |-> [pid_pool |-> p.pool, tid_pool |-> t.pool, processes |-> procs],
              result |-> Ok([pid |-> unwrap(process_by_id(procs, new_pid)),
                             main_thread_id |-> main_thread_id])]

\* start_thread that gives the new thread the id assigned last instead of a
\* fresh one
start_thread_same_id(tid_pool_, procs, pid, fn_index, params, user_data) ==
    LET t == assign(tid_pool_)
        thread_data == [user_data |-> user_data, thread_id |-> tid_pool_,
                        value_back |-> Some(None)]
        started == start_thread_by_id(procs[pid].state_machine, fn_index, params,
                                      thread_data)
    IN  IF ~started.ok
        THEN [tid_pool |-> t.pool, processes |-> procs, result |-> Err(started.e)]
        ELSE [tid_pool |-> t.pool,
              processes |-> [procs EXCEPT ![pid].state_machine = started.v],
              result |-> Ok([pid |-> pid, thread_id |-> tid_pool_,
                             thread_index |-> num_threads(started.v)])]

\* ProcessesCollectionProc::start_thread on the handle of process pid; the
\* handle it returns holds thread_index = num_threads()
start_thread(tid_pool_, procs, pid, fn_index, params, user_data) ==
    LET t == assign(tid_pool_)
        thread_id == t.id
        thread_data == [user_data |-> user_data, thread_id |-> thread_id,
                        value_back |-> Some(None)]
        started == start_thread_by_id(procs[pid].state_machine, fn_index, params,
                                      thread_data)
    IN  IF ~started.ok
        THEN [tid_pool |-> t.pool, processes |-> procs, result |-> Err(started.e)]
        ELSE [tid_pool |-> t.pool,
              processes |-> [procs EXCEPT ![pid].state_machine = started.v],
              result |-> Ok([pid |-> pid, thread_id |-> thread_id,
                             thread_index |-> num_threads(started.v)])]

\* abort that leaves the process in the table
abort_keep(procs, pid) ==
    [processes |-> procs,
     user_data |-> procs[pid].user_data,
     dead_threads |-> ids_and_user_datas(into_user_datas(procs[pid].state_machine))]

\* abort that empties the whole table
abort_all(procs, pid) ==
    [processes |-> <<>>,
     user_data |-> procs[pid].user_data,
     dead_threads |-> ids_and_user_datas(into_user_datas(procs[pid].state_machine))]

\* ProcessesCollectionProc::abort on the handle of process pid
abort(procs, pid) ==
    LET proc == procs[pid]
    IN  [processes |-> remove(procs, pid),
         user_data |-> proc.user_data,
         dead_threads |-> ids_and_user_datas(into_user_datas(proc.state_machine))]

\* resume without the check of value_back: overwrites a pending value
resume_overwrite(user_data, value) ==
    Ok([user_data EXCEPT !.value_back = Some(value)])

\* resume that drops the value: the thread is made ready with no value
resume_no_value(user_data, value) ==
    IF is_some(user_data.value_back)
    THEN Err("panic")
    ELSE Ok([user_data EXCEPT !.value_back = Some(None)])

\* ProcessesCollectionThread::resume on the Thread data of the handle's thread
resume(user_data, value) ==
    IF is_some(user_data.value_back)
    THEN Err("panic")
    ELSE Ok([user_data EXCEPT !.value_back = Some(value)])

\* ---------------------------------------------------------------------
\* ProcessesCollection::run
\* ---------------------------------------------------------------------
\* value_back.take() on every thread of the process
take_value_back_all(sm, index) ==
    [sm EXCEPT !.threads = [i \in DOMAIN sm.threads |->
                                [sm.threads[i] EXCEPT !.user_data.value_back = None]]]

\* value_back.take() on the selected thread
take_value_back(sm, index) ==
    [sm EXCEPT !.threads[index + 1].user_data.value_back = None]

\* ProcessFinished arm that leaves the process in the table
run_process_finished_keep(procs, pid, process, o, evt) ==
    [processes |-> [procs EXCEPT ![pid].state_machine = o.sm], panic |-> FALSE,
     ret |-> [evt EXCEPT
        !.outcome = "ProcessFinished",
        !.user_data = process.user_data,
        !.dead_threads = << <<o.user_data.thread_id, o.user_data.user_data>> >>
                         \o ids_and_user_datas(into_user_datas(o.sm)),
        !.result = "Ok",
        !.value = o.return_value]]

\* ProcessFinished arm that drops the value returned by the main thread
run_process_finished_no_value(procs, pid, process, o, evt) ==
    [processes |-> remove(procs, pid), panic |-> FALSE,
     ret |-> [evt EXCEPT
        !.outcome = "ProcessFinished",
        !.user_data = process.user_data,
        !.dead_threads = << <<o.user_data.thread_id, o.user_data.user_data>> >>
                         \o ids_and_user_datas(into_user_datas(o.sm)),
        !.result = "Ok",
        !.value = None]]

\* ProcessFinished arm that lists the remaining threads only, without the
\* thread that has returned
run_process_finished_others(procs, pid, process, o, evt) ==
    [processes |-> remove(procs, pid), panic |-> FALSE,
     ret |-> [evt EXCEPT
        !.outcome = "ProcessFinished",
        !.user_data = process.user_data,
        !.dead_threads = ids_and_user_datas(into_user_datas(o.sm)),
        !.result = "Ok",
        !.value = o.return_value]]

\* the main thread has returned: the process has ended
run_process_finished(procs, pid, process, o, evt) ==
    [processes |-> remove(procs, pid), panic |-> FALSE,
     ret |-> [evt EXCEPT
        !.outcome = "ProcessFinished",
        !.user_data = process.user_data,
        !.dead_threads = << <<o.user_data.thread_id, o.user_data.user_data>> >>
                         \o ids_and_user_datas(into_user_datas(o.sm)),
        !.result = "Ok",
        !.value = o.return_value]]

\* another thread has returned
run_thread_finished(procs, pid, process, o, evt) ==
    [processes |-> [procs EXCEPT ![pid].state_machine = o.sm], panic |-> FALSE,
     ret |-> [evt EXCEPT
        !.outcome = "ThreadFinished",
        !.tid = o.user_data.thread_id,
        !.user_data = o.user_data.user_data,
        !.value = o.return_value]]

\* Interrupted arm that hands out the token registered first, whatever the
\* index given by the state machine
run_interrupted_first(procs, extr, pid, o, evt) ==
    [processes |-> [procs EXCEPT ![pid].state_machine = o.sm], panic |-> FALSE,
     ret |-> [evt EXCEPT
        !.outcome = "Interrupted",
        !.token = extr[0],
        !.params = o.params]]

\* the thread calls an extrinsic
run_interrupted(procs, extr, pid, o, evt) ==
    IF o.id \notin DOMAIN extr
    THEN [processes |-> [procs EXCEPT ![pid].state_machine = o.sm], panic |-> TRUE,
          ret |-> [evt EXCEPT !.outcome = "panic", !.result = "unreachable"]]
    ELSE [processes |-> [procs EXCEPT ![pid].state_machine = o.sm], panic |-> FALSE,
          ret |-> [evt EXCEPT
            !.outcome = "Interrupted",
            !.token = extr[o.id],
            !.params = o.params]]

\* Errored arm that kills every process of the collection
run_errored_all(procs, pid, process, o, evt) ==
    [processes |-> <<>>, panic |-> FALSE,
     ret |-> [evt EXCEPT
        !.outcome = "ProcessFinished",
        !.user_data = process.user_data,
        !.dead_threads = ids_and_user_datas(into_user_datas(o.sm)),
        !.result = "Err"]]

\* run_errored that leaves the process, with its poisoned state machine, in
\* the collection
run_errored_keep(procs, pid, process, o, evt) ==
    [processes |-> [procs EXCEPT ![pid].state_machine = o.sm], panic |-> FALSE,
     ret |-> [evt EXCEPT
        !.outcome = "ProcessFinished",
        !.user_data = process.user_data,
        !.dead_threads = ids_and_user_datas(into_user_datas(o.sm)),
        !.result = "Err"]]

\* the thread has trapped: the whole process is killed
run_errored(procs, pid, process, o, evt) ==
    [processes |-> remove(procs, pid), panic |-> FALSE,
     ret |-> [evt EXCEPT
        !.outcome = "ProcessFinished",
        !.user_data = process.user_data,
        !.dead_threads = ids_and_user_datas(into_user_datas(o.sm)),
        !.result = "Err"]]

\* run() on the process table: the table after the call, what the call
\* returns, and whether it panicked
run_one(procs, extr, entry) ==
        IF is_none(entry)
        THEN [processes |-> procs, panic |-> FALSE,
              ret |-> [NoCall EXCEPT !.op = "run", !.outcome = "Idle"]]
        ELSE
        LET pid == unwrap(entry)[1]
            inner_thread_index == unwrap(entry)[2]
            process == procs[pid]
            th == thread(process.state_machine, inner_thread_index)
            ev == [NoCall EXCEPT !.op = "run", !.pid = pid,
                                 !.thread_index = inner_thread_index]
        IN  IF is_none(th) \/ is_none(unwrap(th).user_data.value_back)
            THEN [processes |-> procs, panic |-> TRUE,
                  ret |-> [ev EXCEPT !.outcome = "panic", !.result = "unreachable"]]
            ELSE
            LET value_back == unwrap(unwrap(th).user_data.value_back)
                taken == take_value_back(process.state_machine, inner_thread_index)
                run_outcome == run(taken, inner_thread_index, value_back)
                o == run_outcome.v
                evt == [ev EXCEPT !.tid = unwrap(th).user_data.thread_id,
                                  !.injected = value_back]
            IN  IF ~run_outcome.ok
                THEN [processes |-> [procs EXCEPT ![pid].state_machine = taken],
                      panic |-> TRUE,
                      ret |-> [evt EXCEPT !.outcome = "panic", !.result = run_outcome.e]]
                ELSE IF o.outcome = "ThreadFinished" /\ o.thread_index = 0
                THEN run_process_finished(procs, pid, process, o, evt)
                ELSE IF o.outcome = "ThreadFinished"
                THEN run_thread_finished(procs, pid, process, o, evt)
                ELSE IF o.outcome = "Interrupted"
                THEN run_interrupted(procs, extr, pid, o, evt)
                ELSE run_errored(procs, pid, process, o, evt)

\* ---------------------------------------------------------------------
\* Initial state: ProcessesCollectionBuilder::default() followed by the
\* registration of the host functions
\* ---------------------------------------------------------------------
Hist(st, v) == [st |-> st, v |-> v]
set_all(f, keys, val) == [k \in DOMAIN f |-> IF k \in keys THEN val ELSE f[k]]

Init ==
    /\ pid_pool = IdPool_new
    /\ tid_pool = IdPool_new
    /\ processes = <<>>
    /\ extrinsics = Registered.extrinsics
    /\ extrinsics_id_assign = Registered.extrinsics_id_assign
    /\ built = FALSE
    /\ crashed = FALSE
    /\ last = NoCall
    /\ reserved = {}
    /\ returned_pids = <<>>
    /\ created = <<>>
    /\ finished = {}
    /\ aborted = {}
    /\ hist = <<>>
    /\ focus = 0
    /\ vm = None
    /\ reactor = Reactor_new
    /\ tcp = TcpState_new

\* ProcessesCollectionBuilder::reserve_pid
ReservePid ==
    /\ ~built /\ ~crashed
    /\ Cardinality(reserved) < MaxReserved
    /\ pid_pool' = assign(pid_pool).pool
    /\ reserved' = reserved \cup {assign(pid_pool).id}
    /\ last' = [NoCall EXCEPT !.op = "reserve_pid", !.outcome = "Ok",
                              !.pid = assign(pid_pool).id]
    /\ UNCHANGED <<tid_pool, processes, extrinsics, extrinsics_id_assign, built, crashed,
                   returned_pids, created, finished, aborted, hist, focus>>
    /\ UNCHANGED <<vm, reactor, tcp>>

\* build that gives the collection a new pid pool instead of the pool of the
\* builder
Build_new_pid_pool ==
    /\ ~built /\ ~crashed
    /\ built' = TRUE
    /\ pid_pool' = IdPool_new
    /\ tid_pool' = IdPool_new
    /\ processes' = <<>>
    /\ last' = [NoCall EXCEPT !.op = "build", !.outcome = "Ok"]
    /\ UNCHANGED <<extrinsics, extrinsics_id_assign, crashed, focus>>
    /\ UNCHANGED history
    /\ UNCHANGED <<vm, reactor, tcp>>

\* ProcessesCollectionBuilder::build
Build ==
    /\ ~built /\ ~crashed
    /\ IF Cardinality(DOMAIN extrinsics) # Cardinality(DOMAIN extrinsics_id_assign)
       THEN /\ crashed' = TRUE
            /\ last' = [NoCall EXCEPT !.op = "build", !.outcome = "panic"]
            /\ UNCHANGED <<built, tid_pool, processes>>
       ELSE /\ built' = TRUE
            /\ tid_pool' = IdPool_new
            /\ processes' = <<>>
            /\ last' = [NoCall EXCEPT !.op = "build", !.outcome = "Ok"]
            /\ UNCHANGED crashed
    /\ UNCHANGED <<pid_pool, extrinsics, extrinsics_id_assign, focus>>
    /\ UNCHANGED history
    /\ UNCHANGED <<vm, reactor, tcp>>

\* a call of execute
Execute(module, proc_user_data, main_thread_user_data) ==
    /\ built /\ ~crashed /\ focus = 0
    /\ Len(returned_pids) < MaxPids
    /\ tid_pool < MaxTids
    /\ LET r == execute([pid_pool |-> pid_pool, tid_pool |-> tid_pool,
                         processes |-> processes],
                        extrinsics_id_assign, module, proc_user_data,
                        main_thread_user_data)
       IN  /\ pid_pool' = r.self.pid_pool
           /\ tid_pool' = r.self.tid_pool
           /\ processes' = r.self.processes
           /\ IF ~r.result.ok
              THEN /\ last' = [NoCall EXCEPT !.op = "execute", !.outcome = "Err",
                                             !.result = r.result.e]
                   /\ UNCHANGED history
              ELSE /\ last' = [NoCall EXCEPT !.op = "execute", !.outcome = "Ok",
                                             !.pid = r.result.v.pid,
                                             !.tid = r.result.v.main_thread_id]
                   /\ returned_pids' = Append(returned_pids, r.result.v.pid)
                   /\ IF num_threads(processes'[r.result.v.pid].state_machine) = 0
                      THEN UNCHANGED <<created, hist>>
                      ELSE /\ created' = Append(created,
                                                [tid |-> r.result.v.main_thread_id,
                                                 pid |-> r.result.v.pid])
                           /\ hist' = insert(hist, r.result.v.main_thread_id,
                                             Hist("new", None))
                   /\ UNCHANGED <<reserved, finished, aborted>>
    /\ UNCHANGED <<extrinsics, extrinsics_id_assign, built, crashed, focus>>
    /\ UNCHANGED <<vm, reactor, tcp>>

\* run() that takes the token of the extrinsic out of the table when a
\* thread calls it
Run_takes_extrinsic ==
    /\ built /\ ~crashed
    /\ \E entry \in {find_ready(processes, iter_order(DOMAIN processes))} :
       \E r \in {run_one(processes, extrinsics, entry)} :
       LET ev == r.ret
       IN  /\ processes' = r.processes
           /\ crashed' = r.panic
           /\ last' = ev
           /\ extrinsics' = IF ev.outcome = "Interrupted"
                            THEN [k \in {x \in DOMAIN extrinsics : extrinsics[x] # ev.token}
                                    |-> extrinsics[k]]
                            ELSE extrinsics
           /\ finished' = IF ev.outcome = "ProcessFinished"
                          THEN finished \cup {ev.pid} ELSE finished
           /\ hist' = CASE ev.outcome = "ProcessFinished" ->
                                set_all(hist, tids_of(ev.dead_threads), Hist("dead", None))
                        [] ev.outcome = "ThreadFinished" ->
                                set_all(hist, {ev.tid}, Hist("dead", None))
                        [] ev.outcome = "Interrupted" ->
                                set_all(hist, {ev.tid}, Hist("interrupted", None))
                        [] OTHER -> hist
           /\ focus' = IF \/ ev.outcome \in {"ThreadFinished", "Interrupted"} /\ ev.tid = focus
                          \/ ev.outcome = "ProcessFinished" /\ focus \in tids_of(ev.dead_threads)
                       THEN 0 ELSE focus
    /\ UNCHANGED <<pid_pool, tid_pool, extrinsics_id_assign, built,
                   reserved, returned_pids, created, aborted>>
    /\ UNCHANGED <<vm, reactor, tcp>>

\* a call of run
Run ==
    /\ built /\ ~crashed
    /\ \E entry \in {find_ready(processes, iter_order(DOMAIN processes))} :
       \E r \in {run_one(processes, extrinsics, entry)} :
       LET ev == r.ret
       IN  /\ processes' = r.processes
           /\ crashed' = r.panic
           /\ last' = ev
           /\ finished' = IF ev.outcome = "ProcessFinished"
                          THEN finished \cup {ev.pid} ELSE finished
           /\ hist' = CASE ev.outcome = "ProcessFinished" ->
                                set_all(hist, tids_of(ev.dead_threads), Hist("dead", None))
                        [] ev.outcome = "ThreadFinished" ->
                                set_all(hist, {ev.tid}, Hist("dead", None))
                        [] ev.outcome = "Interrupted" ->
                                set_all(hist, {ev.tid}, Hist("interrupted", None))
                        [] OTHER -> hist
           /\ focus' = IF \/ ev.outcome \in {"ThreadFinished", "Interrupted"} /\ ev.tid = focus
                          \/ ev.outcome = "ProcessFinished" /\ focus \in tids_of(ev.dead_threads)
                       THEN 0 ELSE focus
    /\ UNCHANGED <<pid_pool, tid_pool, extrinsics, extrinsics_id_assign, built,
                   reserved, returned_pids, created, aborted>>
    /\ UNCHANGED <<vm, reactor, tcp>>

\* a call of resume on the handle that thread_by_id(tid) returns (the handle
\* of an Interrupted event designates the same thread); wait = TRUE: the
\* caller goes on by calling run() only, until the thread reports
Resume(tid, value, wait) ==
    /\ built /\ ~crashed /\ focus = 0
    /\ is_some(thread_by_id(processes, tid))
    /\ LET handle == unwrap(thread_by_id(processes, tid))
           th == inner(processes, handle)
           r == resume(unwrap(th).user_data, value)
       IN  IF is_none(th) \/ ~r.ok
           THEN /\ crashed' = TRUE
                /\ last' = [NoCall EXCEPT !.op = "resume", !.outcome = "panic", !.tid = tid]
                /\ UNCHANGED <<processes, hist, focus>>
           ELSE /\ processes' = [processes EXCEPT
                        ![handle.pid].state_machine.threads[handle.thread_index + 1]
                            .user_data = r.v]
                /\ last' = [NoCall EXCEPT !.op = "resume", !.outcome = "Ok",
                                          !.pid = handle.pid, !.tid = tid,
                                          !.thread_index = handle.thread_index,
                                          !.value = value]
                /\ hist' = set_all(hist, {tid}, Hist("resumed", value))
                /\ focus' = IF wait THEN tid ELSE 0
                /\ UNCHANGED crashed
    /\ UNCHANGED <<pid_pool, tid_pool, extrinsics, extrinsics_id_assign, built,
                   reserved, returned_pids, created, finished, aborted>>
    /\ UNCHANGED <<vm, reactor, tcp>>

\* a call of start_thread on the handle process_by_id(pid)
StartThread(pid, fn_index, params, user_data) ==
    /\ built /\ ~crashed /\ focus = 0
    /\ is_some(process_by_id(processes, pid))
    /\ tid_pool < MaxTids
    /\ LET r == start_thread(tid_pool, processes, pid, fn_index, params, user_data)
       IN  /\ tid_pool' = r.tid_pool
           /\ processes' = r.processes
           /\ IF ~r.result.ok
              THEN /\ last' = [NoCall EXCEPT !.op = "start_thread", !.outcome = "Err",
                                             !.pid = pid, !.result = r.result.e]
                   /\ UNCHANGED <<created, hist>>
              ELSE /\ last' = [NoCall EXCEPT !.op = "start_thread", !.outcome = "Ok",
                                             !.pid = pid, !.tid = r.result.v.thread_id,
                                             !.thread_index = r.result.v.thread_index]
                   /\ created' = Append(created,
                                        [tid |-> r.result.v.thread_id, pid |-> pid])
                   /\ hist' = insert(hist, r.result.v.thread_id, Hist("new", None))
    /\ UNCHANGED <<pid_pool, extrinsics, extrinsics_id_assign, built, crashed,
                   reserved, returned_pids, finished, aborted, focus>>
    /\ UNCHANGED <<vm, reactor, tcp>>

\* a call of abort on the handle process_by_id(pid)
Abort(pid) ==
    /\ built /\ ~crashed /\ focus = 0
    /\ is_some(process_by_id(processes, pid))
    /\ LET r == abort(processes, pid)
       IN  /\ processes' = r.processes
           /\ last' = [NoCall EXCEPT !.op = "abort", !.outcome = "Ok", !.pid = pid,
                                     !.user_data = r.user_data,
                                     !.dead_threads = r.dead_threads]
           /\ aborted' = aborted \cup {pid}
           /\ hist' = set_all(hist, tids_of(r.dead_threads), Hist("dead", None))
    /\ UNCHANGED <<pid_pool, tid_pool, extrinsics, extrinsics_id_assign, built, crashed,
                   reserved, returned_pids, created, finished, focus>>
    /\ UNCHANGED <<vm, reactor, tcp>>

Next ==
    \/ ReservePid
    \/ Build
    \/ \E m \in ModuleNames, pud \in PudValues, tud \in MainTudValues : Execute(m, pud, tud)
    \/ Run
    \/ \E tid \in 1..MaxTids, v \in ResumeValues : Resume(tid, v, FALSE)
    \/ \E pid \in 1..(MaxPids + MaxReserved), f \in FnIndices, tud \in TudValues :
            StartThread(pid, f, <<>>, tud)
    \/ \E pid \in 1..(MaxPids + MaxReserved) : Abort(pid)

Spec == Init /\ [][Next]_vars

\* the same caller, who may also resume a thread and then call run() only
\* until that thread reports; the caller keeps calling run()
NextWait ==
    \/ Next
    \/ \E tid \in 1..MaxTids, v \in ResumeValues : Resume(tid, v, TRUE)

FairSpec == Init /\ [][NextWait]_vars /\ WF_vars(Run)

\* ---------------------------------------------------------------------
\* The builder alone: any sequence of with_extrinsic and reserve_pid calls
\* on ProcessesCollectionBuilder::default(), then build
\* ---------------------------------------------------------------------
\* number of with_extrinsic calls that register something
MaxRegistered == 3

\* what the caller passes to with_extrinsic
InterfaceValues == {Hash(ZeroHash), Bytes(WasiUnstable)}
FNameValues == {"test", "other"}
SignatureValues == {Sig(<<>>, Some("I32")), Sig(<<"I32">>, None)}
TokenValues == {1234, 9876}

BuilderInit ==
    /\ pid_pool = IdPool_new
    /\ tid_pool = IdPool_new
    /\ processes = <<>>
    /\ extrinsics = Builder_default.extrinsics
    /\ extrinsics_id_assign = Builder_default.extrinsics_id_assign
    /\ built = FALSE
    /\ crashed = FALSE
    /\ last = NoCall
    /\ reserved = {}
    /\ returned_pids = <<>>
    /\ created = <<>>
    /\ finished = {}
    /\ aborted = {}
    /\ hist = <<>>
    /\ focus = 0
    /\ vm = None
    /\ reactor = Reactor_new
    /\ tcp = TcpState_new

\* a call of with_extrinsic on the builder
WithExtrinsic(interface, f_name, signature, token) ==
    /\ ~built /\ ~crashed
    /\ Cardinality(DOMAIN extrinsics) < MaxRegistered
    /\ LET r == with_extrinsic([extrinsics |-> extrinsics,
                                extrinsics_id_assign |-> extrinsics_id_assign],
                               interface, f_name, signature, token)
       IN  IF ~r.ok
           THEN /\ crashed' = TRUE
                /\ last' = [NoCall EXCEPT !.op = "with_extrinsic", !.outcome = "panic",
                                          !.token = token]
                /\ UNCHANGED <<extrinsics, extrinsics_id_assign>>
           ELSE /\ extrinsics' = r.v.extrinsics
                /\ extrinsics_id_assign' = r.v.extrinsics_id_assign
                /\ last' = [NoCall EXCEPT !.op = "with_extrinsic", !.outcome = "Ok",
                                          !.token = token]
                /\ UNCHANGED crashed
    /\ UNCHANGED <<pid_pool, tid_pool, processes, built, focus>>
    /\ UNCHANGED history
    /\ UNCHANGED <<vm, reactor, tcp>>

BuilderNext ==
    \/ \E interface \in InterfaceValues, f_name \in FNameValues,
          signature \in SignatureValues, token \in TokenValues :
            WithExtrinsic(interface, f_name, signature, token)
    \/ ReservePid
    \/ Build

BuilderSpec == BuilderInit /\ [][BuilderNext]_vars

\* ---------------------------------------------------------------------
\* Accesses to the linear memory of the processes, on a collection that
\* holds two processes whose modules export a memory of one page:
\* process 1 with its main thread 1 and a started thread 3, process 2 with
\* its main thread 2
\* ---------------------------------------------------------------------
\* what the caller passes to read_memory and write_memory
\* offsets 16, 65535 and 2^32 - 1; sizes 0, 1, 2 and 2^32 - 1
OffsetValues == {Wide(0, 16), Wide(0, 65535), Wide(65535, 65535)}
SizeValues == {Wide(0, 0), Wide(0, 1), Wide(0, 2), Wide(65535, 65535)}
BytesValues == {<<170, 187>>, <<1>>}

MemExecuted ==
    execute(execute([pid_pool |-> IdPool_new, tid_pool |-> IdPool_new,
                     processes |-> <<>>],
                    Registered.extrinsics_id_assign, "call_loop", "pa", "ta").self,
            Registered.extrinsics_id_assign, "external_call", "pa", "ta").self

MemStarted ==
    start_thread(MemExecuted.tid_pool, MemExecuted.processes, 1, 1, <<>>, "tb")

MemInit ==
    /\ pid_pool = MemExecuted.pid_pool
    /\ tid_pool = MemStarted.tid_pool
    /\ processes = MemStarted.processes
    /\ extrinsics = Registered.extrinsics
    /\ extrinsics_id_assign = Registered.extrinsics_id_assign
    /\ built = TRUE
    /\ crashed = FALSE
    /\ last = [NoCall EXCEPT !.op = "start_thread", !.outcome = "Ok", !.pid = 1,
                             !.tid = MemStarted.result.v.thread_id,
                             !.thread_index = MemStarted.result.v.thread_index]
    /\ reserved = {}
    /\ returned_pids = <<1, 2>>
    /\ created = <<[tid |-> 1, pid |-> 1], [tid |-> 2, pid |-> 2], [tid |-> 3, pid |-> 1]>>
    /\ finished = {}
    /\ aborted = {}
    /\ hist = [t \in {1, 2, 3} |-> Hist("new", None)]
    /\ focus = 0
    /\ vm = None
    /\ reactor = Reactor_new
    /\ tcp = TcpState_new

\* what a memory access leaves alone
MemUnchanged ==
    /\ UNCHANGED <<pid_pool, tid_pool, extrinsics, extrinsics_id_assign, built, focus>>
    /\ UNCHANGED history
    /\ UNCHANGED <<vm, reactor, tcp>>

\* the outcome of a read or of a write, as the caller sees it
MemOutcome(r) == IF r.ok THEN "Ok" ELSE IF r.e = "panic" THEN "panic" ELSE "Err"

\* a call of read_memory on the handle process_by_id(pid)
ProcReadMemory(pid, offset, size) ==
    /\ built /\ ~crashed
    /\ is_some(process_by_id(processes, pid))
    /\ \E r \in {Proc_read_memory(processes, pid, offset, size)} :
        /\ crashed' = (MemOutcome(r) = "panic")
        /\ last' = [NoCall EXCEPT !.op = "read_memory", !.outcome = MemOutcome(r),
                                  !.pid = pid, !.params = <<offset, size>>,
                                  !.value = IF r.ok THEN r.v ELSE None]
        /\ UNCHANGED processes
    /\ MemUnchanged

\* a call of read_memory on the handle thread_by_id(tid)
ThreadReadMemory(tid, offset, size) ==
    /\ built /\ ~crashed
    /\ is_some(thread_by_id(processes, tid))
    /\ \E handle \in {unwrap(thread_by_id(processes, tid))} :
       \E r \in {Thread_read_memory(processes, handle, offset, size)} :
        /\ crashed' = (MemOutcome(r) = "panic")
        /\ last' = [NoCall EXCEPT !.op = "read_memory", !.outcome = MemOutcome(r),
                                  !.pid = handle.pid, !.tid = tid,
                                  !.thread_index = handle.thread_index,
                                  !.params = <<offset, size>>,
                                  !.value = IF r.ok THEN r.v ELSE None]
        /\ UNCHANGED processes
    /\ MemUnchanged

\* a call of write_memory on the handle process_by_id(pid)
ProcWriteMemory(pid, offset, value) ==
    /\ built /\ ~crashed
    /\ is_some(process_by_id(processes, pid))
    /\ \E r \in {Proc_write_memory(processes, pid, offset, value)} :
        /\ crashed' = (MemOutcome(r) = "panic")
        /\ last' = [NoCall EXCEPT !.op = "write_memory", !.outcome = MemOutcome(r),
                                  !.pid = pid, !.params = <<offset, Wide(0, Len(value))>>,
                                  !.value = value]
        /\ processes' = IF r.ok THEN [processes EXCEPT ![pid].state_machine = r.v]
                        ELSE processes
    /\ MemUnchanged

\* a call of write_memory on the handle thread_by_id(tid)
ThreadWriteMemory(tid, offset, value) ==
    /\ built /\ ~crashed
    /\ is_some(thread_by_id(processes, tid))
    /\ \E handle \in {unwrap(thread_by_id(processes, tid))} :
       \E r \in {Thread_write_memory(processes, handle, offset, value)} :
        /\ crashed' = (MemOutcome(r) = "panic")
        /\ last' = [NoCall EXCEPT !.op = "write_memory", !.outcome = MemOutcome(r),
                                  !.pid = handle.pid, !.tid = tid,
                                  !.thread_index = handle.thread_index,
                                  !.params = <<offset, Wide(0, Len(value))>>,
                                  !.value = value]
        /\ processes' = IF r.ok THEN [processes EXCEPT ![handle.pid].state_machine = r.v]
                        ELSE processes
    /\ MemUnchanged

MemNext ==
    \/ \E pid \in 1..2, offset \in OffsetValues, size \in SizeValues :
            ProcReadMemory(pid, offset, size)
    \/ \E tid \in 1..3, offset \in OffsetValues, size \in SizeValues :
            ThreadReadMemory(tid, offset, size)
    \/ \E pid \in 1..2, offset \in OffsetValues, value \in BytesValues :
            ProcWriteMemory(pid, offset, value)
    \/ \E tid \in 1..3, offset \in OffsetValues, value \in BytesValues :
            ThreadWriteMemory(tid, offset, value)

MemSpec == MemInit /\ [][MemNext]_vars

\* ---------------------------------------------------------------------
\* Import resolution on its own: a table is registered, and resolve_func
\* is called with module names of every kind
\* ---------------------------------------------------------------------
Repeat(c, n) == [i \in 1..n |-> c]

\* module names wasmi passes to resolve_func: the empty name, a name with
\* a character outside the alphabet, names that decode to 0 < n < 32
\* bytes, to 32 bytes, and to more than 32 bytes
ModuleNameValues ==
    {EmptyName, WasiUnstable, <<"e", "n", "v">>, <<"1", "1", "z">>, <<"2", "0">>,
     Repeat("1", HashLen), Repeat("1", HashLen + 1),
     Repeat("z", 43), Repeat("z", 44)}

\* a call of ImportResolve::resolve_func
ResolveFunc(module_name, field_name, signature) ==
    /\ ~crashed
    /\ \E id \in {interface_hash(module_name)} :
       \E r \in {resolve(extrinsics_id_assign, id, field_name, signature)} :
        last' = [NoCall EXCEPT !.op = "resolve_func",
                               !.outcome = IF r.ok THEN "Ok" ELSE "Err",
                               !.result = IF r.ok THEN "" ELSE "Instantiation",
                               !.token = IF r.ok THEN r.v ELSE 0,
                               !.params = <<module_name, field_name, signature>>,
                               !.value = id]
    /\ UNCHANGED <<pid_pool, tid_pool, processes, extrinsics, extrinsics_id_assign,
                   built, crashed, focus, vm, reactor, tcp>>
    /\ UNCHANGED history

\* the function names of the imports
FieldNameValues == {"test", "other", "missing"}

\* the tables resolve_func is called on: nothing registered, the table
\* of the tests, and a table with an interface registered by name
ResolveTables ==
    {Builder_default, Registered,
     with_extrinsic(Registered, Bytes(WasiUnstable), "missing", Sig(<<>>, None), 5555).v}

ResolveInit ==
    /\ pid_pool = IdPool_new
    /\ tid_pool = IdPool_new
    /\ processes = <<>>
    /\ \E b \in ResolveTables :
        /\ extrinsics = b.extrinsics
        /\ extrinsics_id_assign = b.extrinsics_id_assign
    /\ built = FALSE
    /\ crashed = FALSE
    /\ last = NoCall
    /\ reserved = {}
    /\ returned_pids = <<>>
    /\ created = <<>>
    /\ finished = {}
    /\ aborted = {}
    /\ hist = <<>>
    /\ focus = 0
    /\ vm = None
    /\ reactor = Reactor_new
    /\ tcp = TcpState_new

ResolveNext ==
    \E module_name \in ModuleNameValues, field_name \in FieldNameValues,
       signature \in SignatureValues \cup {Sig(<<>>, None)} :
        ResolveFunc(module_name, field_name, signature)

ResolveSpec == ResolveInit /\ [][ResolveNext]_vars

\* ---------------------------------------------------------------------
\* The reactor: the threads that poll the futures of message_response,
\* the background thread, and the kernel that answers the messages
\* ---------------------------------------------------------------------
\* message_ids.iter().position(|m| *m == msg_id), counted from 0
position(message_ids, msg_id) ==
    IF \E i \in 1..Len(message_ids) : message_ids[i] = msg_id
    THEN Some(Min({i \in 1..Len(message_ids) : message_ids[i] = msg_id}) - 1)
    ELSE None

\* Vec::remove(index), index counted from 0
vec_remove(v, index) == [i \in 1..(Len(v) - 1) |-> IF i <= index THEN v[i] ELSE v[i + 1]]

\* the body of `for (msg_id, sink, waker) in new_elems.drain(..)` for one
\* element; t holds message_ids, wakers, latest and panic.  The sink and
\* the waker of an element are those of one future, elem[2].
register(t, elem) ==
    LET existing_pos == position(t.message_ids, elem[1])
    IN  IF t.panic THEN t
        ELSE IF is_some(existing_pos)
        THEN IF unwrap(existing_pos) >= Len(t.wakers)
             THEN [t EXCEPT !.panic = TRUE]
             ELSE [t EXCEPT !.wakers[unwrap(existing_pos) + 1] = elem[2],
                            !.latest = insert(t.latest, elem[1], elem[2])]
        ELSE [t EXCEPT !.message_ids = Append(t.message_ids, elem[1]),
                       !.wakers = Append(t.wakers, elem[2]),
                       !.latest = insert(t.latest, elem[1], elem[2])]

RECURSIVE drain(_, _)
drain(t, new_elems) ==
    IF new_elems = <<>> THEN t
    ELSE drain(register(t, Head(new_elems)), Tail(new_elems))

ReactorUnchanged ==
    /\ UNCHANGED <<pid_pool, tid_pool, processes, extrinsics, extrinsics_id_assign,
                   built, focus, vm, tcp>>
    /\ UNCHANGED history

ReactorCall(op, f, msg_id) ==
    [NoCall EXCEPT !.op = op, !.outcome = "Ok", !.tid = f, !.token = msg_id]

\* emit_message(.., needs_answer = true) followed by
\* message_response(msg_id): future f exists and has not been polled
EmitMessage(f) ==
    /\ ~crashed
    /\ reactor.futures[f].st = "none"
    /\ reactor' = [reactor EXCEPT !.futures[f].st = "created",
                                  !.futures[f].msg_id = reactor.next_id,
                                  !.next_id = reactor.next_id + 1]
    /\ last' = ReactorCall("emit_message", f, reactor.next_id)
    /\ UNCHANGED crashed
    /\ ReactorUnchanged

\* a poll of future f, up to the point where it has its response or
\* starts to acquire REACTOR.new_elems
Poll(f) ==
    /\ ~crashed
    /\ reactor.futures[f].st \in {"created", "pending"}
    /\ IF reactor.futures[f].sink # <<>>
       THEN /\ reactor' = [reactor EXCEPT !.futures[f].st = "ready",
                                          !.futures[f].output = reactor.futures[f].sink,
                                          !.futures[f].sink = <<>>]
            /\ last' = [ReactorCall("poll", f, reactor.futures[f].msg_id)
                            EXCEPT !.outcome = "Ready"]
       ELSE /\ reactor.pushes < MaxPushes
            /\ reactor' = [reactor EXCEPT !.futures[f].st = "locking",
                                          !.futures[f].woken = FALSE]
            /\ last' = [ReactorCall("poll", f, reactor.futures[f].msg_id)
                            EXCEPT !.outcome = "Locking"]
    /\ UNCHANGED crashed
    /\ ReactorUnchanged

\* the rest of the poll: the lock is acquired, the element is pushed, the
\* lock is released, FutexWake is emitted (which reaches the background
\* thread if it waits) and Pending is returned
Push(f) ==
    /\ ~crashed
    /\ reactor.futures[f].st = "locking"
    /\ reactor.lock = "free"
    /\ reactor' = [reactor EXCEPT
                        !.new_elems = Append(reactor.new_elems,
                                             <<reactor.futures[f].msg_id, f>>),
                        !.futures[f].st = "pending",
                        !.pushes = reactor.pushes + 1,
                        !.woken = reactor.woken \/ reactor.pc = "poll"]
    /\ last' = [ReactorCall("poll", f, reactor.futures[f].msg_id)
                    EXCEPT !.outcome = "Pending"]
    /\ UNCHANGED crashed
    /\ ReactorUnchanged

\* background_thread: REACTOR.new_elems.lock() at the top of the loop
BgLock ==
    /\ ~crashed
    /\ reactor.pc = "lock"
    /\ reactor.lock = "free"
    /\ reactor' = [reactor EXCEPT !.lock = "bg", !.pc = "wait"]
    /\ last' = ReactorCall("lock", 0, 0)
    /\ UNCHANGED crashed
    /\ ReactorUnchanged

\* background_thread: FutexWait is emitted, its id is put in
\* message_ids[0] and new_elems is drained into message_ids and wakers
BgRegister ==
    /\ ~crashed
    /\ reactor.pc = "wait"
    /\ \E t \in {drain([message_ids |-> [reactor.message_ids EXCEPT ![1] = reactor.next_id],
                        wakers |-> reactor.wakers, latest |-> reactor.latest,
                        panic |-> FALSE],
                       reactor.new_elems)} :
        /\ reactor' = [reactor EXCEPT !.wait_notify = reactor.next_id,
                                      !.next_id = reactor.next_id + 1,
                                      !.woken = FALSE,
                                      !.message_ids = t.message_ids,
                                      !.wakers = t.wakers,
                                      !.latest = t.latest,
                                      !.new_elems = <<>>,
                                      !.pc = "poll"]
        /\ crashed' = t.panic
        /\ last' = [ReactorCall("register", 0, reactor.next_id)
                        EXCEPT !.outcome = IF t.panic THEN "panic" ELSE "Ok"]
    /\ ReactorUnchanged

\* background_thread: next_message(&mut message_ids, true) returns the
\* response to msg_id, one of the messages polled.  The kernel answers a
\* message once; it answers the FutexWait when a FutexWake has come.
BgNextMessage(msg_id) ==
    /\ ~crashed
    /\ reactor.pc = "poll"
    /\ is_some(position(reactor.message_ids, msg_id))
    /\ msg_id \notin reactor.answered
    /\ IF msg_id = reactor.wait_notify
       THEN /\ reactor.woken
            /\ reactor' = [reactor EXCEPT !.answered = reactor.answered \cup {msg_id},
                                          !.lock = "free", !.pc = "lock"]
            /\ last' = ReactorCall("notified", 0, msg_id)
            /\ UNCHANGED crashed
       ELSE /\ \E f \in 1..MaxFutures : reactor.futures[f].msg_id = msg_id
            /\ \E index_in_list \in {unwrap(position(reactor.message_ids, msg_id))} :
               IF index_in_list = 0 \/ index_in_list - 1 >= Len(reactor.wakers)
               THEN /\ crashed' = TRUE
                    /\ last' = [ReactorCall("response", 0, msg_id)
                                    EXCEPT !.outcome = "panic"]
                    /\ UNCHANGED reactor
               ELSE \E f \in {reactor.wakers[index_in_list]} :
                    /\ reactor' = [reactor EXCEPT
                            !.answered = reactor.answered \cup {msg_id},
                            !.message_ids = vec_remove(reactor.message_ids, index_in_list),
                            !.wakers = vec_remove(reactor.wakers, index_in_list - 1),
                            !.futures[f].sink = <<msg_id>>,
                            !.futures[f].woken = TRUE]
                    /\ last' = ReactorCall("response", f, msg_id)
                    /\ UNCHANGED crashed
    /\ ReactorUnchanged

MsgIds == 1..(MaxFutures + 1)

ReactorNext ==
    \/ \E f \in 1..MaxFutures : EmitMessage(f)
    \/ \E f \in 1..MaxFutures : Poll(f)
    \/ \E f \in 1..MaxFutures : Push(f)
    \/ BgLock
    \/ BgRegister
    \/ \E m \in MsgIds : BgNextMessage(m)

ReactorSpec == Init /\ [][ReactorNext]_vars

\* every thread that can take a step takes it in the end, and the kernel
\* answers the messages that are polled
ReactorFairSpec ==
    /\ ReactorSpec
    /\ \A f \in 1..MaxFutures : WF_vars(Push(f))
    /\ WF_vars(BgLock)
    /\ WF_vars(BgRegister)
    /\ \A m \in MsgIds : WF_vars(BgNextMessage(m))

\* ---------------------------------------------------------------------
\* The TCP interface of the kernel: handle_message and next_event on one
\* TcpState.  What the network does is chosen at each poll: a connection
\* attempt, a write or a read is not ready yet, succeeds, or fails.
\* ---------------------------------------------------------------------
Connecting(id, event_id) == [kind |-> "Connecting", id |-> id, event_id |-> event_id]
Socket(socket_id, pending_read, pending_write) ==
    [kind |-> "Socket", socket_id |-> socket_id, pending_read |-> pending_read,
     pending_write |-> pending_write]
Poisoned == [kind |-> "Poisoned"]

IoValues == {"pending", "ok", "err"}

Pending == <<"Pending">>
Panic(why) == <<"panic", why>>

\* the poll_fn of TcpConnec::next_event, polled once with the answer io
\* of the network: the connection afterwards and Pending, the event, or
\* a panic
TcpConnec_next_event(self, io) ==
    CASE self.kind = "Connecting" ->
            IF io = "pending" THEN [self |-> self, out |-> Pending]
            ELSE IF io = "ok"
            THEN [self |-> Socket(self.id, None, None),
                  out |-> <<"Open", self.event_id, "Ok">>]
            ELSE [self |-> Poisoned, out |-> <<"Open", self.event_id, "Err">>]
      [] self.kind = "Socket" ->
            IF is_some(self.pending_write)
            THEN IF io = "pending" THEN [self |-> self, out |-> Pending]
                 ELSE IF io = "err" THEN [self |-> self, out |-> Panic("io")]
                 ELSE [self |-> [self EXCEPT !.pending_write = None],
                       out |-> <<"Write", unwrap(self.pending_write)[1], "Ok">>]
            ELSE IF is_some(self.pending_read)
            THEN IF io = "pending" THEN [self |-> self, out |-> Pending]
                 ELSE IF io = "err" THEN [self |-> self, out |-> Panic("io")]
                 ELSE [self |-> [self EXCEPT !.pending_read = None],
                       out |-> <<"Read", unwrap(self.pending_read), "Ok">>]
            ELSE [self |-> self, out |-> Pending]
      [] OTHER -> [self |-> self, out |-> Panic("Poisoned")]

\* future::select_all over the sockets in the order given: each is polled
\* in turn until one is ready
RECURSIVE select_all(_, _, _)
select_all(sockets, order, io) ==
    IF order = <<>> THEN [sockets |-> sockets, out |-> Pending]
    ELSE LET polled == TcpConnec_next_event(sockets[Head(order)], io[Head(order)])
         IN  IF polled.out = Pending
             THEN select_all([sockets EXCEPT ![Head(order)] = polled.self],
                             Tail(order), io)
             ELSE [sockets |-> [sockets EXCEPT ![Head(order)] = polled.self],
                   out |-> polled.out]

\* the orders in which a map may give its values
Orders(S) == {o \in [1..Cardinality(S) -> S] : \A i, j \in 1..Cardinality(S) :
                                                    i # j => o[i] # o[j]}

TcpUnchanged ==
    /\ UNCHANGED <<pid_pool, tid_pool, processes, extrinsics, extrinsics_id_assign,
                   built, focus, vm, reactor>>
    /\ UNCHANGED history

TcpCall(op, socket_id, event_id) ==
    [NoCall EXCEPT !.op = op, !.outcome = "Ok", !.pid = socket_id, !.token = event_id]

\* handle_message(Some(event_id), TcpMessage::Open)
HandleOpen ==
    /\ ~crashed
    /\ tcp.next_socket_id <= MaxSockets
    /\ tcp.handled < MaxEvents
    /\ tcp' = [tcp EXCEPT !.next_socket_id = tcp.next_socket_id + 1,
                          !.sockets = insert(tcp.sockets, tcp.next_socket_id,
                                             Connecting(tcp.next_socket_id,
                                                        tcp.handled + 1)),
                          !.handled = tcp.handled + 1]
    /\ last' = TcpCall("open", tcp.next_socket_id, tcp.handled + 1)
    /\ UNCHANGED crashed
    /\ TcpUnchanged

\* handle_message(None, TcpMessage::Close)
HandleClose(socket_id) ==
    /\ ~crashed
    /\ tcp' = [tcp EXCEPT !.sockets = IF socket_id \in DOMAIN tcp.sockets
                                      THEN remove(tcp.sockets, socket_id)
                                      ELSE tcp.sockets]
    /\ last' = TcpCall("close", socket_id, 0)
    /\ UNCHANGED crashed
    /\ TcpUnchanged

\* handle_message(Some(event_id), TcpMessage::Read): get_mut().unwrap()
\* and start_read panic unless the socket is connected and has no read
\* pending
HandleRead(socket_id) ==
    /\ ~crashed
    /\ tcp.handled < MaxEvents
    /\ IF /\ socket_id \in DOMAIN tcp.sockets
          /\ tcp.sockets[socket_id].kind = "Socket"
          /\ is_none(tcp.sockets[socket_id].pending_read)
       THEN /\ tcp' = [tcp EXCEPT !.sockets[socket_id].pending_read = Some(tcp.handled + 1),
                                  !.handled = tcp.handled + 1]
            /\ last' = TcpCall("read", socket_id, tcp.handled + 1)
            /\ UNCHANGED crashed
       ELSE /\ crashed' = TRUE
            /\ last' = [TcpCall("read", socket_id, tcp.handled + 1)
                            EXCEPT !.outcome = "panic"]
            /\ UNCHANGED tcp
    /\ TcpUnchanged

\* handle_message(Some(event_id), TcpMessage::Write), likewise
HandleWrite(socket_id, data) ==
    /\ ~crashed
    /\ tcp.handled < MaxEvents
    /\ IF /\ socket_id \in DOMAIN tcp.sockets
          /\ tcp.sockets[socket_id].kind = "Socket"
          /\ is_none(tcp.sockets[socket_id].pending_write)
       THEN /\ tcp' = [tcp EXCEPT !.sockets[socket_id].pending_write =
                                        Some(<<tcp.handled + 1, data>>),
                                  !.handled = tcp.handled + 1]
            /\ last' = TcpCall("write", socket_id, tcp.handled + 1)
            /\ UNCHANGED crashed
       ELSE /\ crashed' = TRUE
            /\ last' = [TcpCall("write", socket_id, tcp.handled + 1)
                            EXCEPT !.outcome = "panic"]
            /\ UNCHANGED tcp
    /\ TcpUnchanged

\* TcpState::next_event, awaited until it returns or panics; with no
\* socket, or while nothing is ready, it stays pending
NextEvent ==
    /\ ~crashed
    /\ tcp.sockets # <<>>
    /\ \E order \in Orders(DOMAIN tcp.sockets), io \in [DOMAIN tcp.sockets -> IoValues] :
       \E r \in {select_all(tcp.sockets, order, io)} :
        /\ r.out # Pending
        /\ IF r.out[1] = "panic"
           THEN /\ crashed' = TRUE
                /\ tcp' = [tcp EXCEPT !.sockets = r.sockets]
                /\ last' = [TcpCall("next_event", 0, 0)
                                EXCEPT !.outcome = "panic", !.result = r.out[2]]
           ELSE /\ UNCHANGED crashed
                /\ tcp' = [tcp EXCEPT !.sockets = r.sockets,
                                      !.events = Append(tcp.events, r.out)]
                /\ last' = [TcpCall("next_event", 0, r.out[2])
                                EXCEPT !.outcome = r.out[1], !.result = r.out[3]]
    /\ TcpUnchanged

TcpNext ==
    \/ HandleOpen
    \/ \E socket_id \in 1..MaxSockets : HandleClose(socket_id)
    \/ \E socket_id \in 1..MaxSockets : HandleRead(socket_id)
    \/ \E socket_id \in 1..MaxSockets : HandleWrite(socket_id, <<1>>)
    \/ NextEvent

TcpSpec == Init /\ [][TcpNext]_vars

\* ---------------------------------------------------------------------
\* A state machine used on its own: new on one of the modules, with the
\* imports resolved on the registered table, then calls of resume
\* ---------------------------------------------------------------------
VmUnchanged ==
    /\ UNCHANGED <<pid_pool, tid_pool, processes, extrinsics, extrinsics_id_assign,
                   built, focus, reactor, tcp>>
    /\ UNCHANGED history

\* a call of ProcessStateMachine::new; the state machine made before is
\* dropped
VmNew(module) ==
    /\ ~crashed
    /\ \E r \in {vm_new(module, extrinsics_id_assign)} :
        /\ vm' = IF r.ok THEN Some(r.v) ELSE None
        /\ last' = [NoCall EXCEPT !.op = "new",
                                  !.outcome = IF r.ok THEN "Ok" ELSE "Err",
                                  !.result = IF r.ok THEN "" ELSE r.e]
    /\ UNCHANGED crashed
    /\ VmUnchanged

\* a call of ProcessStateMachine::resume
VmResume(value) ==
    /\ ~crashed
    /\ is_some(vm)
    /\ \E r \in {vm_resume(unwrap(vm), value)} :
        /\ vm' = Some(r.sm)
        /\ crashed' = r.panic
        /\ last' = [NoCall EXCEPT
                        !.op = "resume",
                        !.injected = value,
                        !.outcome = IF r.panic THEN "panic"
                                    ELSE IF r.result.ok THEN r.result.v.outcome ELSE "Err",
                        !.result = IF r.result.ok THEN "" ELSE r.result.e,
                        !.token = IF r.result.ok THEN r.result.v.id ELSE 0,
                        !.params = IF r.result.ok THEN r.result.v.params ELSE <<>>,
                        !.value = IF r.result.ok THEN r.result.v.value ELSE None]
    /\ VmUnchanged

\* a call of ProcessStateMachine::start
VmStart(interface, function) ==
    /\ ~crashed
    /\ is_some(vm)
    /\ \E r \in {vm_start(unwrap(vm), interface, function)} :
        /\ vm' = Some(r.sm)
        /\ crashed' = r.panic
        /\ last' = [NoCall EXCEPT !.op = "start",
                                  !.outcome = IF r.panic THEN "panic"
                                              ELSE IF r.result.ok THEN "Ok" ELSE "Err",
                                  !.result = IF r.result.ok THEN "" ELSE r.result.e,
                                  !.params = <<interface, function>>]
    /\ VmUnchanged

\* a call of ProcessStateMachine::write_memory
VmWriteMemory(offset, value) ==
    /\ ~crashed
    /\ is_some(vm)
    /\ \E r \in {write_memory(unwrap(vm), offset, value)} :
        /\ vm' = IF r.ok THEN Some(r.v) ELSE vm
        /\ crashed' = (~r.ok /\ r.e = "panic")
        /\ last' = [NoCall EXCEPT !.op = "write_memory",
                                  !.outcome = MemOutcome(r),
                                  !.params = <<offset, Wide(0, Len(value))>>,
                                  !.value = value]
    /\ VmUnchanged

\* a call of ProcessStateMachine::read_memory on the range start..end
VmReadMemory(start, end) ==
    /\ ~crashed
    /\ is_some(vm)
    /\ \E r \in {dma(unwrap(vm), start, end)} :
        /\ crashed' = (~r.ok /\ r.e = "panic")
        /\ last' = [NoCall EXCEPT !.op = "read_memory",
                                  !.outcome = MemOutcome(r),
                                  !.params = <<start, end>>,
                                  !.value = IF r.ok THEN r.v ELSE <<>>]
    /\ UNCHANGED <<vm, reactor, tcp>>
    /\ VmUnchanged

VmNext ==
    \/ \E m \in ModuleNames : VmNew(m)
    \/ \E v \in ResumeValues : VmResume(v)
    \/ \E f \in FNameValues : VmStart(ZeroHash, f)
    \/ \E o \in OffsetValues, b \in BytesValues : VmWriteMemory(o, b)
    \/ \E start \in OffsetValues :
       \E end \in {Wide(0, 0)} \cup {wide_add(start, n) : n \in SizeValues} :
            VmReadMemory(start, end)

VmSpec == Init /\ [][VmNext]_vars

\* ---------------------------------------------------------------------
\* Vocabulary of the properties
\* ---------------------------------------------------------------------
\* places (pid, 0-based index) of the live threads that carry ThreadId t
Located(procs, t) ==
    {loc \in UNION {{<<p, i>> : i \in 0..(Len(procs[p].state_machine.threads) - 1)} :
                        p \in DOMAIN procs} :
        procs[loc[1]].state_machine.threads[loc[2] + 1].user_data.thread_id = t}

ThreadAt(procs, loc) == procs[loc[1]].state_machine.threads[loc[2] + 1]

LiveTids(procs) ==
    UNION {{procs[p].state_machine.threads[i].user_data.thread_id :
                i \in 1..Len(procs[p].state_machine.threads)} : p \in DOMAIN procs}

\* no live thread has value_back = Some(_)
NoReady(procs) ==
    \A p \in DOMAIN procs : \A i \in 1..Len(procs[p].state_machine.threads) :
        is_none(procs[p].state_machine.threads[i].user_data.value_back)

ReadyTid(t) ==
    \E loc \in Located(processes, t) :
        is_some(ThreadAt(processes, loc).user_data.value_back)

RunEvents == {"Interrupted", "ThreadFinished", "ProcessFinished"}

\* the last call was a run() that selected thread t
SelectedTid(t) == last.op = "run" /\ last.outcome # "Idle" /\ last.tid = t

\* the last call was a run() that returned an event of thread t or the end
\* of its process
Reported(t) ==
    /\ last.op = "run"
    /\ \/ last.outcome \in {"Interrupted", "ThreadFinished"} /\ last.tid = t
       \/ last.outcome = "ProcessFinished" /\ t \in tids_of(last.dead_threads)

Range(s) == {s[i] : i \in 1..Len(s)}
NoDup(s) == \A i, j \in 1..Len(s) : i # j => s[i] # s[j]
CreatedTids == [i \in 1..Len(created) |-> created[i].tid]
OwnerOf(t) == (CHOOSE c \in Range(created) : c.tid = t).pid
Dead == finished \cup aborted

\* the instruction at which the thread at loc leaves the interpreter next
NextIns(procs, loc) ==
    LET th == ThreadAt(procs, loc)
        body == Modules[procs[loc[1]].state_machine.module].funcs[th.func + 1]
    IN  body[fetch(body, th.pc) + 1]

\* ---------------------------------------------------------------------
\* C1: run() returns Idle, and changes nothing, exactly when no thread of
\* any live process has value_back = Some(_); otherwise the thread it
\* selects was ready just before the call.
\* ---------------------------------------------------------------------
C1_IdleIffNoReady ==
    [][last'.op = "run" =>
        /\ last'.outcome = "Idle" <=> NoReady(processes)
        /\ last'.outcome = "Idle" =>
                /\ processes' = processes
                /\ UNCHANGED <<pid_pool, tid_pool, extrinsics, extrinsics_id_assign>>
        /\ last'.outcome # "Idle" =>
                /\ <<last'.pid, last'.thread_index>> \in Located(processes, last'.tid)
                /\ is_some(ThreadAt(processes, <<last'.pid, last'.thread_index>>)
                                .user_data.value_back)
    ]_vars

\* run() has selected a ready thread and has passed over a suspended one
\* that comes earlier in the iteration
C1_Witness ==
    /\ last.op = "run" /\ last.outcome = "Interrupted"
    /\ \E t \in DOMAIN hist :
        /\ t < last.tid
        /\ hist[t].st = "interrupted"
        /\ Located(processes, t) # {}
        /\ ~ReadyTid(t)

\* ---------------------------------------------------------------------
\* C2: a thread for which run() returned Interrupted is suspended and is
\* not selected by run() until it is resumed; a resume succeeds only on a
\* thread that is suspended since its Interrupted (so exactly one resume
\* lies between the Interrupted and the next event of the thread); the
\* value run() injects is the value given to that resume, and the thread
\* goes on with it as the result of the host call.
\* ---------------------------------------------------------------------
Suspended(h, procs) ==
    \A t \in DOMAIN h : h[t].st = "interrupted" =>
        /\ Located(procs, t) # {}
        /\ \A loc \in Located(procs, t) : is_none(ThreadAt(procs, loc).user_data.value_back)

C2_Linearised ==
    [][/\ Suspended(hist, processes) /\ Suspended(hist', processes')
       /\ (last'.op = "run" /\ last'.outcome # "Idle") =>
            /\ last'.tid \in DOMAIN hist
            /\ hist[last'.tid].st \in {"new", "resumed"}
            /\ hist[last'.tid].st = "new" => last'.injected = None
            /\ hist[last'.tid].st = "resumed" =>
                /\ last'.injected = hist[last'.tid].v
                /\ last'.outcome = "Interrupted" =>
                    \A loc \in Located(processes', last'.tid) :
                        ThreadAt(processes', loc).acc = hist[last'.tid].v
                /\ ( /\ last'.outcome \in {"ThreadFinished", "ProcessFinished"}
                     /\ last'.result # "Err"
                     /\ NextIns(processes, <<last'.pid, last'.thread_index>>).op
                            = "return_last" ) =>
                    last'.value = hist[last'.tid].v
       /\ (last'.op = "resume" /\ last'.outcome = "Ok") =>
            /\ hist[last'.tid].st = "interrupted"
            /\ \A loc \in Located(processes', last'.tid) :
                    ThreadAt(processes', loc).user_data.value_back = Some(last'.value)
       /\ (last'.op = "resume" /\ last'.outcome = "panic") =>
            /\ hist[last'.tid].st # "interrupted"
            /\ processes' = processes
    ]_vars

\* a thread was interrupted, resumed with a value, selected again, and has
\* returned that value
C2_Witness ==
    /\ last.op = "run" /\ last.outcome = "ProcessFinished" /\ last.result = "Ok"
    /\ last.injected = Some(I32(2227))
    /\ last.value = Some(I32(2227))

\* ---------------------------------------------------------------------
\* C3: no starvation.  While the caller keeps calling run(), a thread that
\* is ready is eventually selected by run() (or stops being ready, or the
\* program has panicked): no ready thread is passed over forever.
\* ---------------------------------------------------------------------
C3_NoStarvation ==
    \A t \in 1..MaxTids :
        [](ReadyTid(t) => <>(SelectedTid(t) \/ ~ReadyTid(t) \/ crashed))

\* ---------------------------------------------------------------------
\* C4: round trip.  Once the caller has resumed an interrupted thread t
\* with some value and goes on by calling run() only, the calls of run()
\* lead to an event of t.  Stated on the calls: every run() made while
\* the caller waits for t returns Interrupted, ThreadFinished or
\* ProcessFinished (t is ready, so never Idle), and none of them panics.
\* ---------------------------------------------------------------------
C4_RoundTrip ==
    [][(focus # 0 /\ last'.op = "run") => (~crashed' /\ last'.outcome \in RunEvents)]_vars

\* the same round trip as an eventuality, for the runs in which no call
\* panics
C4_Eventually ==
    \A t \in 1..MaxTids : [](focus = t => <>(Reported(t) \/ crashed))

\* ---------------------------------------------------------------------
\* C5: id uniqueness.  No two successful execute calls have returned the
\* same Pid, no two threads ever created carry the same ThreadId (dead
\* ones included), and every live process and thread carries an id that
\* was handed out for it.
\* ---------------------------------------------------------------------
C5_IdUniqueness ==
    /\ NoDup(returned_pids)
    /\ NoDup(CreatedTids)
    /\ DOMAIN processes \subseteq Range(returned_pids)
    /\ LiveTids(processes) \subseteq Range(CreatedTids)
    /\ \A p \in DOMAIN processes :
            NoDup([i \in 1..Len(processes[p].state_machine.threads) |->
                        processes[p].state_machine.threads[i].user_data.thread_id])

\* an execute has succeeded after a process has died, after a reserve_pid
\* and with a second thread created
C5_Witness ==
    /\ last.op = "execute" /\ last.outcome = "Ok"
    /\ Dead # {}
    /\ reserved # {}
    /\ Len(created) >= 2

\* ---------------------------------------------------------------------
\* C6: process membership.  A Pid returned by a successful execute is
\* found by process_by_id, and listed by pids(), exactly as long as run()
\* has returned no ProcessFinished for it and abort was not called on it;
\* pids() lists the live processes and nothing else.
\* ---------------------------------------------------------------------
C6_Membership ==
    /\ \A i \in 1..Len(returned_pids) :
            /\ is_some(process_by_id(processes, returned_pids[i]))
                    <=> returned_pids[i] \notin Dead
            /\ returned_pids[i] \in pids(processes) <=> returned_pids[i] \notin Dead
    /\ pids(processes) = Range(returned_pids) \ Dead
    /\ Cardinality(pids(processes)) = Len(returned_pids) - Cardinality(Dead)

\* one process has been reported finished and another one aborted
C6_Witness ==
    /\ finished # {}
    /\ aborted # {}
    /\ last.op \in {"run", "abort"}

\* ---------------------------------------------------------------------
\* C7: thread ownership.  Every live ThreadId is carried by one thread of
\* one live process; thread_by_id(t) is a handle of that thread (tid() = t,
\* pid() = the owning process), and is None exactly when no live process
\* has a thread t, as for a thread that has ended.
\* ---------------------------------------------------------------------
C7_Ownership ==
    \A t \in 0..(MaxTids + 1) :
        /\ Cardinality(Located(processes, t)) <= 1
        /\ is_none(thread_by_id(processes, t)) <=> Located(processes, t) = {}
        /\ is_some(thread_by_id(processes, t)) =>
            /\ is_some(inner(processes, unwrap(thread_by_id(processes, t))))
            /\ handle_tid(processes, unwrap(thread_by_id(processes, t))) = t
            /\ handle_pid(processes, unwrap(thread_by_id(processes, t))) = OwnerOf(t)
            /\ handle_pid(processes, unwrap(thread_by_id(processes, t))) \in DOMAIN processes
        /\ (t \in DOMAIN hist /\ hist[t].st = "dead") => is_none(thread_by_id(processes, t))

\* thread_by_id finds a thread that is not the first of its process
C7_Witness ==
    \E t \in 1..MaxTids :
        /\ is_some(thread_by_id(processes, t))
        /\ unwrap(thread_by_id(processes, t)).thread_index = 1
        /\ handle_tid(processes, unwrap(thread_by_id(processes, t))) = t

\* ---------------------------------------------------------------------
\* C8: main-thread finality.  Once run() has returned ProcessFinished for
\* p, or abort was called on p, no run() returns an event that refers to
\* p, to a thread of p or to a thread that has ended.
\* ---------------------------------------------------------------------
C8_Finality ==
    [][(last'.op = "run" /\ last'.outcome \in RunEvents) =>
            /\ last'.pid \notin Dead
            /\ last'.tid \in DOMAIN hist
            /\ hist[last'.tid].st # "dead"
            /\ OwnerOf(last'.tid) \notin Dead
            /\ \A t \in tids_of(last'.dead_threads) :
                    hist[t].st # "dead" /\ OwnerOf(t) \notin Dead
      ]_vars

\* run() has returned an event of a live process after another process
\* has ended
C8_Witness ==
    /\ last.op = "run" /\ last.outcome \in {"Interrupted", "ThreadFinished"}
    /\ Dead # {}
    /\ last.pid \notin Dead

\* ---------------------------------------------------------------------
\* C9: one thread per run.  A run() that selects a thread changes that
\* thread only: every other process is unchanged, no process appears, and
\* in the selected process, unless it is removed, the other threads and the
\* user data are unchanged; the call ends at the next point where the
\* selected thread leaves the interpreter.
\* ---------------------------------------------------------------------
Others(threads, t) == SelectSeq(threads, LAMBDA th : th.user_data.thread_id # t)

C9_OneThread ==
    [][(last'.op = "run" /\ last'.outcome # "Idle") =>
            /\ DOMAIN processes' \subseteq DOMAIN processes
            /\ DOMAIN processes \ {last'.pid} \subseteq DOMAIN processes'
            /\ \A p \in DOMAIN processes \ {last'.pid} : processes'[p] = processes[p]
            /\ last'.pid \in DOMAIN processes' =>
                /\ processes'[last'.pid].user_data = processes[last'.pid].user_data
                /\ Others(processes'[last'.pid].state_machine.threads, last'.tid)
                        = Others(processes[last'.pid].state_machine.threads, last'.tid)
            /\ last'.outcome = "Interrupted" <=>
                    (~crashed' /\ NextIns(processes, <<last'.pid, last'.thread_index>>).op = "call")
            /\ last'.outcome = "Interrupted" =>
                \A loc \in Located(processes', last'.tid) :
                    /\ is_none(ThreadAt(processes', loc).user_data.value_back)
                    /\ ThreadAt(processes', loc).user_data.user_data
                        = ThreadAt(processes, <<last'.pid, last'.thread_index>>)
                                .user_data.user_data
      ]_vars

\* run() has selected one thread while another thread of the same process
\* was ready, and that one is still ready
C9_Witness ==
    /\ last.op = "run" /\ last.outcome = "Interrupted"
    /\ \E t \in LiveTids(processes) :
        /\ t # last.tid
        /\ ReadyTid(t)
        /\ OwnerOf(t) = last.pid

\* ---------------------------------------------------------------------
\* C10: the main thread returns.  When the thread selected by run() is
\* the thread at index 0 and its function returns the value r, run()
\* returns ProcessFinished for the pid of the process with the outcome
\* Ok(r) and the process is no longer in the collection; when no thread is
\* ready after that, the following run() returns Idle.
\* ---------------------------------------------------------------------
C10_MainReturns ==
    [][/\ ( /\ last'.op = "run" /\ last'.outcome # "Idle" /\ ~crashed'
            /\ last'.thread_index = 0
            /\ NextIns(processes, <<last'.pid, 0>>).op \in {"return_const", "return_last"} ) =>
            /\ last'.outcome = "ProcessFinished"
            /\ last'.result = "Ok"
            /\ last'.value = IF NextIns(processes, <<last'.pid, 0>>).op = "return_const"
                             THEN Some(NextIns(processes, <<last'.pid, 0>>).v)
                             ELSE last'.injected
            /\ last'.pid \in DOMAIN processes
            /\ last'.pid \notin DOMAIN processes'
            /\ DOMAIN processes' = DOMAIN processes \ {last'.pid}
       /\ ( /\ last.op = "run" /\ last.outcome = "ProcessFinished" /\ last.result = "Ok"
            /\ NoReady(processes)
            /\ last'.op = "run" ) =>
            /\ last'.outcome = "Idle"
            /\ processes' = processes
    ]_vars

\* the main thread of the only process has returned 5: run() has returned
\* ProcessFinished with Ok(5) and the collection is empty
C10_Witness ==
    /\ last.op = "run" /\ last.outcome = "ProcessFinished" /\ last.result = "Ok"
    /\ last.thread_index = 0
    /\ last.value = Some(I32(5))
    /\ last.pid \notin DOMAIN processes
    /\ processes = <<>>

\* ---------------------------------------------------------------------
\* C11: a trap kills only its process.  When the thread selected by run()
\* (main or not) executes a trap, run() returns ProcessFinished for its
\* process with the outcome Err and the process is removed; every other
\* process is unchanged, and an execute made after the call gives what it
\* would have given before it, but for the removed process.
\* ---------------------------------------------------------------------
ExecuteOn(pool, tids, procs, m) ==
    execute([pid_pool |-> pool, tid_pool |-> tids, processes |-> procs],
            extrinsics_id_assign, m, "pa", "ta")

C11_TrapKillsProcess ==
    [][( /\ last'.op = "run" /\ last'.outcome # "Idle" /\ ~crashed'
         /\ NextIns(processes, <<last'.pid, last'.thread_index>>).op = "unreachable" ) =>
            /\ last'.outcome = "ProcessFinished"
            /\ last'.result = "Err"
            /\ last'.pid \in DOMAIN processes
            /\ is_none(process_by_id(processes', last'.pid))
            /\ last'.pid \notin pids(processes')
            /\ DOMAIN processes' = DOMAIN processes \ {last'.pid}
            /\ \A p \in DOMAIN processes' : processes'[p] = processes[p]
            /\ \A m \in ModuleNames :
                /\ ExecuteOn(pid_pool', tid_pool', processes', m).result
                        = ExecuteOn(pid_pool, tid_pool, processes, m).result
                /\ ExecuteOn(pid_pool', tid_pool', processes', m).self.processes
                        = remove(ExecuteOn(pid_pool, tid_pool, processes, m).self.processes,
                                 last'.pid)
      ]_vars

\* a thread has trapped, its process is gone and another process is still
\* there with a thread ready to run
C11_Witness ==
    /\ last.op = "run" /\ last.outcome = "ProcessFinished" /\ last.result = "Err"
    /\ last.pid \notin DOMAIN processes
    /\ processes # <<>>
    /\ ~NoReady(processes)

\* ---------------------------------------------------------------------
\* C12: host-call round trip.  When the selected thread calls an import,
\* run() returns Interrupted with the token registered under the
\* (interface, name) of that import and with the arguments of the call in
\* order; every import of a live process is resolved to a registered
\* token; the execution that follows resume(v) goes on with v as the
\* value returned by the call.
\* ---------------------------------------------------------------------
ImportOf(procs, loc) ==
    Modules[procs[loc[1]].state_machine.module].imports[NextIns(procs, loc).imp + 1]

TokenOf(imp) ==
    extrinsics[extrinsics_id_assign[<<interface_hash(imp.module_name), imp.name>>][1]]

C12_HostCall ==
    [][/\ \A p \in DOMAIN processes :
            \A i \in 1..Len(processes[p].state_machine.imports) :
                processes[p].state_machine.imports[i] \in DOMAIN extrinsics
       /\ (last'.op = "run" /\ last'.outcome = "Interrupted") =>
            /\ NextIns(processes, <<last'.pid, last'.thread_index>>).op = "call"
            /\ last'.token = TokenOf(ImportOf(processes, <<last'.pid, last'.thread_index>>))
            /\ ImportOf(processes, <<last'.pid, last'.thread_index>>).name = "test"
                    => last'.token = 9876
            /\ last'.params = NextIns(processes, <<last'.pid, last'.thread_index>>).args
       /\ ( /\ last'.op = "run" /\ last'.outcome # "Idle" /\ ~crashed'
            /\ hist[last'.tid].st = "resumed" ) =>
            /\ last'.injected = hist[last'.tid].v
            /\ NextIns(processes, <<last'.pid, last'.thread_index>>).op = "return_last"
                    => last'.value = hist[last'.tid].v
            /\ last'.outcome = "Interrupted" =>
                    \A loc \in Located(processes', last'.tid) :
                        ThreadAt(processes', loc).acc = hist[last'.tid].v
      ]_vars

\* a thread resumed with 2227 has gone on and called the host function
\* again, with one argument: run() has returned the token 9876 and the
\* argument
C12_Witness ==
    /\ last.op = "run" /\ last.outcome = "Interrupted"
    /\ last.token = 9876
    /\ last.params = <<I32(1)>>
    /\ last.injected = Some(I32(2227))

\* ---------------------------------------------------------------------
\* C13: the destruction of a process returns all user data.  The event
\* ProcessFinished (the main thread has returned, or a thread has trapped)
\* and the value returned by abort carry the user data of the process and
\* the (ThreadId, user data) of every thread the process had just before,
\* once each, the thread that returned or trapped included; when the
\* process has a main thread, its entry, with the user data given to
\* execute, comes first.
\* ---------------------------------------------------------------------
ThreadPairs(procs, p) ==
    [i \in 1..Len(procs[p].state_machine.threads) |->
        <<procs[p].state_machine.threads[i].user_data.thread_id,
          procs[p].state_machine.threads[i].user_data.user_data>>]

\* the module of the process exports main
HasMain(procs, p) == is_some(Modules[procs[p].state_machine.module].main)

\* ThreadId of the first thread created for process p
FirstTidOf(p) == created[Min({i \in 1..Len(created) : created[i].pid = p})].tid

C13_Destroyed(p, ev) ==
    /\ ev.user_data = processes[p].user_data
    /\ Len(ev.dead_threads) = Len(ThreadPairs(processes, p))
    /\ Range(ev.dead_threads) = Range(ThreadPairs(processes, p))
    /\ NoDup(ev.dead_threads)
    /\ NoDup([i \in 1..Len(ev.dead_threads) |-> ev.dead_threads[i][1]])
    /\ HasMain(processes, p) =>
        /\ ev.dead_threads # <<>>
        /\ ev.dead_threads[1][1] = FirstTidOf(p)
        /\ ev.dead_threads[1][2] \in MainTudValues

C14_AbortTotal ==
    [][/\ \A p \in DOMAIN processes :
            /\ abort(processes, p).processes = remove(processes, p)
            /\ abort(processes, p).user_data = processes[p].user_data
            /\ Len(abort(processes, p).dead_threads)
                    = num_threads(processes[p].state_machine)
       /\ last'.op = "abort" =>
            /\ last'.outcome = "Ok"
            /\ ~crashed'
            /\ last'.pid \in DOMAIN processes
            /\ is_none(process_by_id(processes', last'.pid))
            /\ DOMAIN processes' = DOMAIN processes \ {last'.pid}
            /\ \A p \in DOMAIN processes' : processes'[p] = processes[p]
            /\ UNCHANGED <<pid_pool, tid_pool, extrinsics, extrinsics_id_assign>>
      ]_vars

\* abort has removed a process that had two threads
C14_Witness ==
    /\ last.op = "abort" /\ last.outcome = "Ok"
    /\ Len(last.dead_threads) = 2
    /\ last.pid \notin DOMAIN processes
    /\ ~crashed

\* ---------------------------------------------------------------------
\* C15: precondition of resume.  resume(v) on a suspended thread
\* (value_back = None) sets its value_back to Some(v) and changes nothing
\* else; resume on a thread that is ready (value_back = Some(_)) panics
\* and leaves the pending value as it is.
\* ---------------------------------------------------------------------
C15_ResumePrecondition ==
    [][last'.op = "resume" =>
        /\ Located(processes, last'.tid) # {}
        /\ \A loc \in Located(processes, last'.tid) :
            /\ is_none(ThreadAt(processes, loc).user_data.value_back) =>
                /\ last'.outcome = "Ok"
                /\ ~crashed'
                /\ processes' =
                    [processes EXCEPT
                        ![loc[1]].state_machine.threads[loc[2] + 1].user_data.value_back
                            = Some(last'.value)]
                /\ ThreadAt(processes', loc).user_data.value_back = Some(last'.value)
            /\ is_some(ThreadAt(processes, loc).user_data.value_back) =>
                /\ last'.outcome = "panic"
                /\ crashed'
                /\ processes' = processes
        /\ UNCHANGED <<pid_pool, tid_pool, extrinsics, extrinsics_id_assign>>
      ]_vars

\* resume has panicked on a thread that was resumed before and has not run
\* since: the value given first is still pending
C15_Witness ==
    /\ last.op = "resume" /\ last.outcome = "panic"
    /\ crashed
    /\ last.tid \in DOMAIN hist
    /\ hist[last.tid].st = "resumed"
    /\ \E loc \in Located(processes, last.tid) :
            ThreadAt(processes, loc).user_data.value_back = Some(hist[last.tid].v)

\* ---------------------------------------------------------------------
\* C16: a thread that is not the main thread returns.  When the thread
\* selected by run() is not the main thread of its process and its
\* function returns the value r, run() returns ThreadFinished with the
\* ThreadId and the user data of the thread and the value r; the process
\* stays in the collection and its other threads are unchanged.
\* ---------------------------------------------------------------------
\* tid is the thread created by the execute call that made process p
IsMainThread(procs, p, tid) == HasMain(procs, p) /\ tid = FirstTidOf(p)

C16_Returns(p, index, ev) ==
    /\ ev.outcome = "ThreadFinished"
    /\ ev.tid = ThreadAt(processes, <<p, index>>).user_data.thread_id
    /\ ev.user_data = ThreadAt(processes, <<p, index>>).user_data.user_data
    /\ ev.value = IF NextIns(processes, <<p, index>>).op = "return_const"
                  THEN Some(NextIns(processes, <<p, index>>).v)
                  ELSE ev.injected
    /\ p \in DOMAIN processes'
    /\ processes'[p].user_data = processes[p].user_data
    /\ processes'[p].state_machine.threads
            = Others(processes[p].state_machine.threads, ev.tid)
    /\ Len(processes'[p].state_machine.threads)
            = Len(processes[p].state_machine.threads) - 1

C16_NonMainReturns ==
    [][( /\ last'.op = "run" /\ last'.outcome # "Idle" /\ ~crashed'
         /\ ~IsMainThread(processes, last'.pid, last'.tid)
         /\ NextIns(processes, <<last'.pid, last'.thread_index>>).op
                \in {"return_const", "return_last"} ) =>
            C16_Returns(last'.pid, last'.thread_index, last')
      ]_vars

\* the same for the processes that have a main thread
C16_NonMainReturnsBesideMain ==
    [][( /\ last'.op = "run" /\ last'.outcome # "Idle" /\ ~crashed'
         /\ HasMain(processes, last'.pid)
         /\ ~IsMainThread(processes, last'.pid, last'.tid)
         /\ NextIns(processes, <<last'.pid, last'.thread_index>>).op
                \in {"return_const", "return_last"} ) =>
            C16_Returns(last'.pid, last'.thread_index, last')
      ]_vars

NotStarted(procs, made, p) ==
    /\ ~HasMain(procs, p)
    /\ \A i \in 1..Len(made) : made[i].pid # p

C19_IndexZeroIsMain(procs, made) ==
    \A p \in DOMAIN procs : procs[p].state_machine.threads # <<>> =>
        /\ HasMain(procs, p)
        /\ \E i \in 1..Len(made) :
            /\ made[i].pid = p
            /\ \A j \in 1..(i - 1) : made[j].pid # p
            /\ made[i].tid = procs[p].state_machine.threads[1].user_data.thread_id

\* the thread that run() has selected was made by start_thread
C19_StartedByStartThread(p, tid) == ~IsMainThread(processes, p, tid)

C19_Step(only) ==
    /\ C19_IndexZeroIsMain([p \in only \cap DOMAIN processes' |-> processes'[p]], created')
    /\ (last'.op = "run" /\ last'.outcome = "ProcessFinished" /\ last'.result = "Ok"
            /\ last'.pid \in only) =>
            /\ IsMainThread(processes, last'.pid, last'.tid)
            /\ NextIns(processes, <<last'.pid, last'.thread_index>>).op
                    \in {"return_const", "return_last"}
    /\ (last'.op = "run" /\ last'.outcome # "Idle" /\ ~crashed'
            /\ last'.pid \in only
            /\ C19_StartedByStartThread(last'.pid, last'.tid)
            /\ NextIns(processes, <<last'.pid, last'.thread_index>>).op
                    \in {"return_const", "return_last"}) =>
            /\ last'.outcome = "ThreadFinished"
            /\ last'.pid \in DOMAIN processes'

C19_MainIsIndexZero ==
    [][C19_Step(DOMAIN processes \cup DOMAIN processes')]_vars

\* the same for the processes whose module exports main
C19_MainIsIndexZeroWithMain ==
    [][C19_Step({p \in DOMAIN processes : HasMain(processes, p)}
                \cup {p \in DOMAIN processes' : HasMain(processes', p)})]_vars

\* a thread made by start_thread beside the main thread has returned: run()
\* has reported ThreadFinished and the main thread is still at index 0
C19_Witness ==
    /\ last.op = "run" /\ last.outcome = "ThreadFinished"
    /\ last.pid \in DOMAIN processes
    /\ HasMain(processes, last.pid)
    /\ last.tid # FirstTidOf(last.pid)
    /\ processes[last.pid].state_machine.threads[1].user_data.thread_id
            = FirstTidOf(last.pid)


\* ---------------------------------------------------------------------
\* C20: a process starts paused at the entry point.  A successful execute
\* of a module that exports function main runs no WebAssembly code; right
\* after it the process has exactly one thread (the main thread, index 0)
\* which is ready with value_back = Some(None), and the first run() that
\* selects it starts main from its entry with no injected value.
\* ---------------------------------------------------------------------
\* the thread is where ProcessStateMachine::new has put it: at the entry of
\* main, nothing executed
C20_AtEntry(procs, p, th) ==
    /\ th.func = unwrap(Modules[procs[p].state_machine.module].main)
    /\ th.pc = 0
    /\ ~th.interrupted
    /\ th.acc = None

\* what run() reports for a function started at its entry
C20_FromEntry(procs, p, ev) ==
    LET m == Modules[procs[p].state_machine.module]
        body == m.funcs[unwrap(m.main) + 1]
        ins == body[fetch(body, 0) + 1]
    IN  CASE ins.op = "call" ->
                /\ ev.outcome = "Interrupted"
                /\ ev.params = ins.args
          [] ins.op = "unreachable" ->
                /\ ev.outcome = "ProcessFinished"
                /\ ev.result = "Err"
          [] ins.op = "return_const" ->
                /\ ev.outcome = "ProcessFinished"
                /\ ev.result = "Ok"
                /\ ev.value = Some(ins.v)
          [] OTHER -> FALSE

C21_IsRegistered(imp) ==
    <<interface_hash(imp.module_name), imp.name>> \in DOMAIN extrinsics_id_assign

\* the import is registered and the registered signature is the imported one
C21_Matches(imp) ==
    /\ C21_IsRegistered(imp)
    /\ extrinsics_id_assign[<<interface_hash(imp.module_name), imp.name>>][2] = imp.sig

\* modules with an unregistered import / with a registered import of
\* another signature
C21_Unregistered ==
    {m \in ModuleNames : \E imp \in Range(Modules[m].imports) : ~C21_IsRegistered(imp)}
C21_Mismatched ==
    {m \in ModuleNames : \E imp \in Range(Modules[m].imports) :
                            C21_IsRegistered(imp) /\ ~C21_Matches(imp)}

\* In every state reached: what execute gives for each module, and what the
\* last execute has given.  The two kinds of failure give the same value,
\* Err(Interpreter).
C21_SignatureGate ==
    /\ \A m \in ModuleNames :
        \A r \in {ExecuteOn(pid_pool, tid_pool, processes, m)} :
        \A ok \in {\A imp \in Range(Modules[m].imports) : C21_Matches(imp)} :
            /\ r.result.ok => ok
            /\ ~ok =>
                /\ r.result = Err("Interpreter")
                /\ r.self.processes = processes
                /\ pids(r.self.processes) = pids(processes)
                /\ r.self.pid_pool = pid_pool
    /\ \A p \in DOMAIN processes :
            \A imp \in Range(Modules[processes[p].state_machine.module].imports) :
                C21_Matches(imp)
    /\ (last.op = "execute" /\ last.outcome = "Err") => last.result = "Interpreter"

\* an execute has failed with NewErr::Interpreter on a collection that holds
\* a process, and both kinds of modules exist: one with an unregistered
\* import and one whose import is registered with another signature
C21_Witness ==
    /\ last.op = "execute" /\ last.outcome = "Err" /\ last.result = "Interpreter"
    /\ processes # <<>>
    /\ "unresolved" \in C21_Unregistered \ C21_Mismatched
    /\ "mismatch" \in C21_Mismatched \ C21_Unregistered


\* ---------------------------------------------------------------------
\* C22: errors are values.  If the caller resumes a suspended thread with
\* a value whose type differs from the result type expected by the
\* pending host call (or with a value where none is expected, or none
\* where one is expected), the violation is reported as a BadValueTy
\* error value to the caller; run() does not crash the collection because
\* of it and other processes remain usable.
\* ---------------------------------------------------------------------
\* the thread that run() is about to select waits for the result of a host
\* call and has been given a value of another type
C22_BadValuePending(procs) ==
    LET entry == find_ready(procs, iter_order(DOMAIN procs))
    IN  /\ is_some(entry)
        /\ LET th == ThreadAt(procs, unwrap(entry))
               v == unwrap(th.user_data.value_back)
           IN  /\ th.interrupted
               /\ th.expected # (IF is_some(v) THEN Some(value_type(unwrap(v))) ELSE None)

C22_ErrorsAreValues ==
    [][(last'.op = "run" /\ C22_BadValuePending(processes)) =>
            /\ ~crashed'
            /\ last'.outcome # "panic"
            /\ last'.result = "BadValueTy"
            /\ \A p \in DOMAIN processes : p # last'.pid =>
                    p \in DOMAIN processes' /\ processes'[p] = processes[p]
      ]_vars

\* the type of the value is what the call expects: run() does not panic
C22_GoodValuesRun ==
    [][(last'.op = "run" /\ ~C22_BadValuePending(processes)) => ~crashed']_vars


\* ---------------------------------------------------------------------
\* C23: no poisoned process is ever schedulable.  In every reachable state
\* between two calls no process of the collection has a poisoned state
\* machine, and run() never selects a thread of a poisoned state machine
\* (the state machine never answers run() with RunErr::Poisoned), because
\* a trap removes the process in the same run() call that poisons it.
\* ---------------------------------------------------------------------
C23_NoPoisonedProcess ==
    /\ \A p \in DOMAIN processes : ~processes[p].state_machine.is_poisoned
    /\ last.op = "run" => last.result # "Poisoned"
    /\ LET entry == find_ready(processes, iter_order(DOMAIN processes))
       IN  is_some(entry) => ~processes[unwrap(entry)[1]].state_machine.is_poisoned

\* a thread of a process with two threads has trapped: the process is gone
\* and the processes left are not poisoned
C23_Witness ==
    /\ last.op = "run" /\ last.outcome = "ProcessFinished" /\ last.result = "Err"
    /\ Len(last.dead_threads) = 2
    /\ last.pid \notin DOMAIN processes
    /\ \A p \in DOMAIN processes : ~processes[p].state_machine.is_poisoned


\* ---------------------------------------------------------------------
\* C24: duplicate registration panics.  with_extrinsic panics if and only
\* if an extrinsic with the same (interface, function name) pair has
\* already been registered on that builder, regardless of the signature
\* and token passed; registrations with pairwise distinct pairs never
\* panic, so a built table has pairwise unique keys.
\* ---------------------------------------------------------------------
\* the pairs registered in table t, one per index
C24_KeysByIndex(t) == {<<t[k][1], k>> : k \in DOMAIN t}

C24_DuplicatePanics ==
    [][/\ \A interface \in InterfaceValues, f_name \in FNameValues,
            signature \in SignatureValues, token \in TokenValues :
            WithExtrinsic(interface, f_name, signature, token) =>
                /\ crashed' <=> <<interface, f_name>> \in DOMAIN extrinsics_id_assign
                /\ crashed' => /\ last'.outcome = "panic"
                               /\ extrinsics_id_assign' = extrinsics_id_assign
                /\ ~crashed' =>
                    /\ DOMAIN extrinsics_id_assign'
                            = DOMAIN extrinsics_id_assign \cup {<<interface, f_name>>}
                    /\ extrinsics_id_assign'[<<interface, f_name>>][2] = signature
                    /\ \A k \in DOMAIN extrinsics_id_assign :
                            extrinsics_id_assign'[k] = extrinsics_id_assign[k]
       /\ (last'.op = "with_extrinsic" /\ last'.outcome = "Ok") =>
            Cardinality(DOMAIN extrinsics_id_assign')
                = Cardinality(DOMAIN extrinsics_id_assign) + 1
       /\ built' =>
            /\ ~crashed'
            /\ Cardinality(C24_KeysByIndex(extrinsics_id_assign'))
                    = Cardinality(DOMAIN extrinsics')
      ]_vars

\* a third registration has panicked: its pair was one of the two pairs
\* registered before
C24_Witness ==
    /\ last.op = "with_extrinsic" /\ last.outcome = "panic"
    /\ crashed
    /\ Cardinality(DOMAIN extrinsics_id_assign) = 2


\* ---------------------------------------------------------------------
\* C25: reserved pids stay reserved.  A Pid returned by reserve_pid on the
\* builder is never returned by any later execute on the built
\* collection, never appears in pids(), process_by_id of it is always
\* None, and two reserve_pid calls never return the same Pid.
\* ---------------------------------------------------------------------
\* Every call of reserve_pid and every successful execute takes one id of
\* the pid pool: the reserved Pids are as many as the calls of reserve_pid
\* exactly when no two calls returned the same Pid.
C25_ReservedStayReserved ==
    /\ reserved \cap Range(returned_pids) = {}
    /\ reserved \cap pids(processes) = {}
    /\ \A r \in reserved : is_none(process_by_id(processes, r))
    /\ Cardinality(reserved) = pid_pool - Len(returned_pids)
    /\ (last.op = "execute" /\ last.outcome = "Ok") => last.pid \notin reserved
    /\ last.op = "reserve_pid" => last.pid \in reserved

\* two Pids were reserved on the builder and the second execute on the
\* built collection has succeeded after a process has died
C25_Witness ==
    /\ Cardinality(reserved) = 2
    /\ last.op = "execute" /\ last.outcome = "Ok"
    /\ Len(returned_pids) = 2
    /\ Dead # {}


\* ---------------------------------------------------------------------
\* C26: the host function table is immutable after build.  No operation
\* on a built collection (execute, whether it succeeds or fails, run,
\* resume, start_thread, abort, process_by_id, thread_by_id) adds, removes
\* or re-indexes an entry of the (interface, function name) ->
\* (index, signature) map or of the index -> token map.
\* ---------------------------------------------------------------------
C26_TableImmutable ==
    [][built =>
        /\ extrinsics_id_assign' = extrinsics_id_assign
        /\ extrinsics' = extrinsics
        /\ DOMAIN extrinsics_id_assign' = DOMAIN extrinsics_id_assign
        /\ \A k \in DOMAIN extrinsics_id_assign :
                extrinsics_id_assign'[k][1] = extrinsics_id_assign[k][1]
        /\ last'.op \in {"execute", "run", "resume", "start_thread", "abort"}
      ]_vars

\* a thread has called a host function and has been resumed, an execute has
\* failed, and the two maps are those the builder had made
C26_Witness ==
    /\ built
    /\ last.op = "execute" /\ last.outcome = "Err"
    /\ \E t \in DOMAIN hist : hist[t].st = "resumed"
    /\ extrinsics = Registered.extrinsics
    /\ extrinsics_id_assign = Registered.extrinsics_id_assign


\* ---------------------------------------------------------------------
\* C27: dense token indices.  After any sequence of with_extrinsic calls
\* that did not panic, with N registrations, the indices stored in the
\* name map are exactly 0..N-1 with no repetition, the token map has
\* exactly the keys 0..N-1, and both maps have size N (the equality
\* asserted in build() holds).
\* ---------------------------------------------------------------------
C27_DenseIndices ==
    LET N == Cardinality(DOMAIN extrinsics_id_assign)
    IN  /\ {extrinsics_id_assign[k][1] : k \in DOMAIN extrinsics_id_assign} = 0..(N - 1)
        /\ \A k1, k2 \in DOMAIN extrinsics_id_assign :
                k1 # k2 => extrinsics_id_assign[k1][1] # extrinsics_id_assign[k2][1]
        /\ DOMAIN extrinsics = 0..(N - 1)
        /\ Cardinality(DOMAIN extrinsics) = N
        /\ (last.op = "with_extrinsic" /\ last.outcome = "Ok") =>
                extrinsics[N - 1] = last.token
        /\ last.op = "build" => (last.outcome = "Ok" /\ built)

\* build has been called after three registrations
C27_Witness ==
    /\ built
    /\ last.op = "build" /\ last.outcome = "Ok"
    /\ Cardinality(DOMAIN extrinsics_id_assign) = 3
    /\ Cardinality(DOMAIN extrinsics) = 3


\* ---------------------------------------------------------------------
\* C28: memory bounds.  For a process whose linear memory has `pages`
\* pages and for all 32-bit off and n, read_memory(off, n) and
\* write_memory(off, bytes of length n) return Err if and only if
\* off + n > pages * 65536, where off + n is the mathematical sum (no
\* wrap-around of the addition can turn an out-of-range access into an
\* accepted one); an Err leaves the memory unchanged.
\* ---------------------------------------------------------------------
\* off + n > pages * 65536, counted in whole pages and a rest
C28_Exceeds(off, n, pages) ==
    LET whole == off[1] + n[1] + ((off[2] + n[2]) \div 65536)
        rest == (off[2] + n[2]) % 65536
    IN  whole > pages \/ (whole = pages /\ rest > 0)

C29_Reads(procs, p, off, n) ==
    {Proc_read_memory(procs, p, off, n)}
    \cup {Thread_read_memory(procs, unwrap(thread_by_id(procs, t)), off, n) :
            t \in {x \in LiveTids(procs) : unwrap(thread_by_id(procs, x)).pid = p}}

\* the addresses that the accesses made can reach
C29_Addresses == {16, 17, 65535}

C29_MemoryPerProcess ==
    [][/\ (last'.op = "write_memory" /\ last'.outcome = "Ok") =>
            LET p == last'.pid
                off == last'.params[1]
                b == last'.value
                region == address(off)..(address(off) + Len(b) - 1)
            IN  /\ C29_Reads(processes', p, off, Wide(0, Len(b))) = {Ok(b)}
                /\ \A a \in C29_Addresses \ region :
                        byte_at(unwrap(processes'[p].state_machine.memory), a)
                            = byte_at(unwrap(processes[p].state_machine.memory), a)
                /\ \A q \in DOMAIN processes \ {p} :
                        /\ processes'[q] = processes[q]
                        /\ C29_Reads(processes', q, off, Wide(0, Len(b)))
                                = C29_Reads(processes, q, off, Wide(0, Len(b)))
                        /\ \A o \in OffsetValues, n \in SizeValues :
                                Proc_read_memory(processes', q, o, n)
                                    = Proc_read_memory(processes, q, o, n)
       /\ (last'.op = "write_memory" /\ last'.outcome # "Ok") => processes' = processes
       /\ last'.op = "read_memory" =>
            /\ processes' = processes
            /\ last'.outcome = "Ok" =>
                    /\ C29_Reads(processes, last'.pid, last'.params[1], last'.params[2])
                            = {Ok(last'.value)}
                    /\ \A i \in 1..Len(last'.value) :
                            last'.value[i]
                                = byte_at(unwrap(processes[last'.pid].state_machine.memory),
                                          address(last'.params[1]) + i - 1)
      ]_vars

\* thread 3 of process 1 has read at offset 16 the two bytes written there,
\* while process 2 holds another byte at that address
C29_Witness ==
    /\ last.op = "read_memory" /\ last.outcome = "Ok"
    /\ last.tid = 3 /\ last.pid = 1
    /\ last.params = <<Wide(0, 16), Wide(0, 2)>>
    /\ last.value = <<170, 187>>
    /\ Proc_read_memory(processes, 2, Wide(0, 16), Wide(0, 2)) = Ok(<<1, 0>>)


\* ---------------------------------------------------------------------
\* C30
\* ---------------------------------------------------------------------
\* the state machine after the last call, a successful new or a resume
\* that returned
C30_AfterNew ==
    /\ last.op = "new" /\ last.outcome = "Ok"
    /\ is_some(vm) /\ is_some(Modules[unwrap(vm).module].main)
C30_AfterResume == last.op = "resume" /\ last.outcome # "panic" /\ is_some(vm)

\* the state the claim gives for each of the three outcomes
C30_StateOf(sm, outcome) ==
    /\ outcome = "Finished" => ~vm_is_executing(sm)
    /\ outcome = "Interrupted" => vm_is_executing(sm)
    /\ outcome = "Errored" => ~vm_is_executing(sm) /\ vm_is_poisoned(sm)

\* C30 as stated: new on a module that exports main gives a state machine
\* that is executing and not poisoned; every resume returns one of
\* Finished, Interrupted or Errored, after which the state machine is not
\* executing, executing, and not executing and poisoned.
C30_ThreeOutcomes ==
    /\ C30_AfterNew =>
        vm_is_executing(unwrap(vm)) /\ ~vm_is_poisoned(unwrap(vm))
    /\ C30_AfterResume =>
        /\ last.outcome \in {"Finished", "Interrupted", "Errored"}
        /\ C30_StateOf(unwrap(vm), last.outcome)

\* C30 amended: new on a module that exports main gives a state machine
\* that is executing and not poisoned; every resume made while the state
\* machine is executing returns one of Finished, Interrupted, Errored or
\* the error BadValueTy; the state machine is not executing after
\* Finished, executing after Interrupted, and not executing and poisoned
\* after Errored.
C30_OutcomesOrBadValueTy ==
    /\ C30_AfterNew =>
        vm_is_executing(unwrap(vm)) /\ ~vm_is_poisoned(unwrap(vm))
    /\ C30_AfterResume =>
        /\ \/ last.outcome \in {"Finished", "Interrupted", "Errored"}
           \/ last.outcome = "Err" /\ last.result = "BadValueTy"
        /\ C30_StateOf(unwrap(vm), last.outcome)

\* a resume with the value of the host call returned Finished with that
\* value, and the state machine is no longer executing
C30_Witness ==
    /\ C30_AfterResume
    /\ last.outcome = "Finished"
    /\ last.injected = Some(I32(2227))
    /\ last.value = Some(I32(2227))
    /\ ~vm_is_executing(unwrap(vm))


\* ---------------------------------------------------------------------
\* C31
\* ---------------------------------------------------------------------
\* what the name decodes to when the buffer is as long as the name, which
\* is room enough for any name
C31_Decoded(name) == bs58_decode(name, Len(name))

\* C31: when the module name given to resolve_func decodes to n <= 32
\* bytes, the interface is the hash whose last n bytes are the decoded
\* bytes and whose first 32 - n bytes are zero, the hash that
\* InterfaceHash::from_str gives for the name; when the name does not
\* decode, or decodes to more than 32 bytes, the interface is the name
\* itself; resolve_func fails only when the closure does not resolve the
\* interface and the function.
C31_InterfaceOfName ==
    last.op = "resolve_func" =>
        \A name \in {last.params[1]} : \A d \in {C31_Decoded(name)} :
            /\ (d.ok /\ Len(d.v) <= HashLen) =>
                /\ last.value[1] = "Hash"
                /\ \A i \in 1..HashLen :
                    last.value[2][i] = IF i <= HashLen - Len(d.v) THEN 0
                                       ELSE d.v[i - (HashLen - Len(d.v))]
                /\ InterfaceHash_from_str(name) = Ok(last.value[2])
            /\ (~d.ok \/ Len(d.v) > HashLen) =>
                /\ last.value = Bytes(name)
                /\ ~InterfaceHash_from_str(name).ok
            /\ (last.outcome = "Ok") =
                    resolve(extrinsics_id_assign, last.value,
                            last.params[2], last.params[3]).ok

\* resolve_func was called with a name that decodes to fewer than 32 bytes,
\* not all zero
C31_Witness ==
    /\ last.op = "resolve_func"
    /\ C31_Decoded(last.params[1]).ok
    /\ Len(C31_Decoded(last.params[1]).v) \in 1..(HashLen - 1)
    /\ last.value[1] = "Hash"
    /\ last.value[2] # ZeroHash

\* resolve_func was called with a name that decodes to more than 32 bytes
C31_WitnessTooLong ==
    /\ last.op = "resolve_func"
    /\ C31_Decoded(last.params[1]).ok
    /\ Len(C31_Decoded(last.params[1]).v) > HashLen
    /\ last.value[1] = "Bytes"

\* resolve_func resolved a name that is not in base 58
C31_WitnessName ==
    /\ last.op = "resolve_func"
    /\ ~C31_Decoded(last.params[1]).ok
    /\ last.outcome = "Ok"


\* ---------------------------------------------------------------------
\* C32
\* ---------------------------------------------------------------------
\* C32: a call of execute that returns Err leaves the processes, the pool
\* of process ids and the pool of thread ids as they were before the call.
C32_FailedExecuteChangesNothing ==
    [][(last'.op = "execute" /\ last'.outcome = "Err")
            => UNCHANGED <<processes, pid_pool, tid_pool>>]_vars

\* a call of execute that returns Err leaves the processes and the pool of
\* process ids as they were before the call, and takes one thread id
C32_FailedExecuteTakesThreadId ==
    [][(last'.op = "execute" /\ last'.outcome = "Err")
            => /\ UNCHANGED <<processes, pid_pool>>
               /\ tid_pool' = assign(tid_pool).pool]_vars


\* ---------------------------------------------------------------------
\* C33
\* ---------------------------------------------------------------------
\* the last call is a start_thread that returned a thread handle
C33_Started == last.op = "start_thread" /\ last.outcome = "Ok"
C33_Handle == [pid |-> last.pid, thread_index |-> last.thread_index]

\* C33: the handle that a successful start_thread returns designates the
\* thread it added: its index is less than the number of threads of the
\* process, inner() finds a thread, tid() is the ThreadId assigned by the
\* call and user_data() is the user data passed in.
C33_HandleIsNewThread ==
    C33_Started =>
        /\ last.thread_index < num_threads(processes[last.pid].state_machine)
        /\ is_some(inner(processes, C33_Handle))
        /\ handle_tid(processes, C33_Handle) = last.tid
        /\ unwrap(inner(processes, C33_Handle)).user_data.user_data \in TudValues

\* a successful start_thread on a process of k threads leaves it k + 1
\* threads, the last of which has the ThreadId assigned by the call and
\* the user data passed in; the handle returned holds the index k + 1
C33_HandleIsPastTheEnd ==
    [][(last'.op = "start_thread" /\ last'.outcome = "Ok") =>
        \A sm \in {processes'[last'.pid].state_machine} :
            /\ num_threads(sm) = num_threads(processes[last'.pid].state_machine) + 1
            /\ unwrap(thread(sm, num_threads(sm) - 1)).user_data.thread_id = last'.tid
            /\ unwrap(thread(sm, num_threads(sm) - 1)).user_data.user_data \in TudValues
            /\ last'.thread_index = num_threads(sm)
            /\ is_none(thread(sm, last'.thread_index))]_vars


\* ---------------------------------------------------------------------
\* C34
\* ---------------------------------------------------------------------
\* the last call is a start_thread that made thread t
C34_Started(t) == last.op = "start_thread" /\ last.outcome = "Ok" /\ last.tid = t

\* the threads of process p
C34_Threads(procs, p) == procs[p].state_machine.threads

\* C34, the effect of start_thread on the threads: a successful
\* start_thread adds exactly one thread, ready with value_back =
\* Some(None), after the threads the process had, which are unchanged, as
\* are the other processes; a start_thread that returns an error leaves
\* every process as it was.
C34_AddsOneReadyThread ==
    [][(last'.op = "start_thread") =>
        IF last'.outcome = "Ok"
        THEN /\ DOMAIN processes' = DOMAIN processes
             /\ \A p \in DOMAIN processes \ {last'.pid} : processes'[p] = processes[p]
             /\ Len(C34_Threads(processes', last'.pid))
                    = Len(C34_Threads(processes, last'.pid)) + 1
             /\ SubSeq(C34_Threads(processes', last'.pid), 1,
                       Len(C34_Threads(processes, last'.pid)))
                    = C34_Threads(processes, last'.pid)
             /\ \A th \in {C34_Threads(processes', last'.pid)[
                                Len(C34_Threads(processes', last'.pid))]} :
                    /\ th.user_data.thread_id = last'.tid
                    /\ th.user_data.value_back = Some(None)
        ELSE processes' = processes]_vars

\* C34: a successful start_thread adds exactly one thread, which is ready
\* and is later selected by run(), and leaves the existing threads and the
\* other processes unchanged; a failed start_thread leaves the threads
\* unchanged.  Here: the thread made by start_thread is selected by a
\* later run(), unless it is gone with its process or a call has panicked.
C34_StartedIsSelected ==
    \A t \in 1..MaxTids :
        [](C34_Started(t) => <>(SelectedTid(t) \/ t \notin LiveTids(processes) \/ crashed))


\* ---------------------------------------------------------------------
\* C35
\* ---------------------------------------------------------------------
\* C35: a resume that returns BadValueTy leaves the state machine
\* unchanged: it is still executing, paused at the same point.
C35_BadValueTyChangesNothing ==
    [][(last'.op = "resume" /\ last'.result = "BadValueTy") => vm' = vm]_vars

\* a resume that returns BadValueTy leaves the state machine without its
\* invocation: is_executing() is false, and nothing else has changed
C35_BadValueTyDropsInvocation ==
    [][(last'.op = "resume" /\ last'.result = "BadValueTy") =>
        /\ vm_is_executing(unwrap(vm))
        /\ ~vm_is_executing(unwrap(vm'))
        /\ vm' = Some([unwrap(vm) EXCEPT !.execution = None])]_vars


\* ---------------------------------------------------------------------
\* C36
\* ---------------------------------------------------------------------
\* the state machine exists and is poisoned
C36_Poisoned(m) == is_some(m) /\ vm_is_poisoned(unwrap(m))

\* C36: a poisoned state machine stays poisoned and not executing, and
\* every later start or resume on it returns the error Poisoned without
\* panicking; a start on a state machine that is executing and not
\* poisoned returns AlreadyRunning and leaves it as it was.
C36_PoisonedRejects ==
    [][/\ (C36_Poisoned(vm) /\ last'.op \in {"resume", "start"}) =>
            /\ ~crashed'
            /\ last'.outcome = "Err" /\ last'.result = "Poisoned"
            /\ vm' = vm
       /\ (is_some(vm) /\ ~vm_is_poisoned(unwrap(vm)) /\ vm_is_executing(unwrap(vm))
                /\ last'.op = "start") =>
            /\ ~crashed'
            /\ last'.outcome = "Err" /\ last'.result = "AlreadyRunning"
            /\ vm' = vm]_vars

\* a poisoned state machine stays poisoned and not executing as long as it
\* lives, and every resume and every start on it panics
C36_PoisonedPanics ==
    [][(C36_Poisoned(vm) /\ last'.op # "new") =>
            /\ C36_Poisoned(vm')
            /\ ~vm_is_executing(unwrap(vm'))
            /\ last'.op \in {"resume", "start"} => crashed']_vars


\* ---------------------------------------------------------------------
\* C37
\* ---------------------------------------------------------------------
\* the last call is a read or a write of the memory of the state machine
C37_Accessed == last.op \in {"read_memory", "write_memory"} /\ is_some(vm)

\* the range of the last access: inverted, or ending past the memory of
\* the given number of pages
C37_End == IF last.op = "read_memory" THEN last.params[2]
           ELSE wide_add(last.params[1], last.params[2])
C37_BadRange(pages) ==
    wide_gt(last.params[1], C37_End) \/ wide_gt(C37_End, Wide(pages, 0))

\* C37: read_memory and write_memory never panic; on a state machine
\* whose module exports no memory every access returns the unit error,
\* and an inverted or out-of-range range returns the unit error.
C37_MemoryAccessTotal ==
    C37_Accessed =>
        /\ last.outcome # "panic"
        /\ is_none(unwrap(vm).memory) => last.outcome = "Err"
        /\ (is_some(unwrap(vm).memory)
                /\ C37_BadRange(unwrap(unwrap(vm).memory).pages)) => last.outcome = "Err"

\* on a state machine that has a memory no access panics and an inverted
\* or out-of-range range returns the unit error; on a state machine
\* without memory every access panics
C37_TotalWithMemory ==
    C37_Accessed =>
        IF is_some(unwrap(vm).memory)
        THEN /\ last.outcome # "panic"
             /\ (last.outcome = "Err") = C37_BadRange(unwrap(unwrap(vm).memory).pages)
        ELSE last.outcome = "panic"


\* ---------------------------------------------------------------------
\* C38
\* ---------------------------------------------------------------------
\* the background thread has processed the registrations and is polling
C38_Polling == reactor.pc = "poll" /\ ~crashed

\* C38: once the background thread has processed a batch of
\* registrations, and after any response, message_ids is one longer than
\* wakers, message_ids[0] is the id of the FutexWait, and wakers[i - 1]
\* is the sink and waker registered last for message_ids[i]; a response
\* to m is written to the future registered for m and wakes it, also
\* when m was registered twice; no index goes out of bounds.
C38_TablesAligned ==
    /\ ~(crashed /\ last.op \in {"register", "response"})
    /\ C38_Polling =>
        /\ Len(reactor.message_ids) = Len(reactor.wakers) + 1
        /\ reactor.message_ids[1] = reactor.wait_notify
        /\ \A i \in 2..Len(reactor.message_ids) :
            reactor.wakers[i - 1] = reactor.latest[reactor.message_ids[i]]
    /\ (last.op = "response" /\ last.outcome = "Ok") =>
            reactor.futures[last.tid].msg_id = last.token

\* as long as no call has panicked, message_ids is one longer than wakers
\* and message_ids[0] is the id of the FutexWait while the background
\* thread polls
C38_LengthsAligned ==
    C38_Polling =>
        /\ Len(reactor.message_ids) = Len(reactor.wakers) + 1
        /\ reactor.message_ids[1] = reactor.wait_notify

\* a response has been written to the sink of a future that waits for
\* another message
C38_WrongFuture ==
    /\ last.op = "response" /\ last.outcome = "Ok"
    /\ reactor.futures[last.tid].msg_id # last.token


\* ---------------------------------------------------------------------
\* C39
\* ---------------------------------------------------------------------
\* future f is being polled and is acquiring REACTOR.new_elems while the
\* background thread is blocked in next_message
C39_PolledWhileBlocked(f) ==
    reactor.futures[f].st = "locking" /\ reactor.pc = "poll" /\ ~crashed

\* the element of future f is in new_elems or has been registered by the
\* background thread
C39_Pushed(f) == reactor.futures[f].st \in {"pending", "ready"}

\* C39: a future that is polled while the background thread is blocked
\* waiting for messages gets its element pushed to the reactor in the
\* end: acquiring REACTOR.new_elems does not wait forever.
C39_PushIsMade ==
    \A f \in 1..MaxFutures :
        [](C39_PolledWhileBlocked(f) => <>(C39_Pushed(f) \/ crashed))

\* the background thread holds REACTOR.new_elems for as long as it is
\* blocked in next_message, and no FutexWake reaches it there
C39_LockHeldWhileBlocked ==
    reactor.pc = "poll" => (reactor.lock = "bg" /\ ~reactor.woken)

\* a future that is polled before the background thread has taken the
\* lock is pushed, registered, and resolves to the response once it is
\* polled after the response has come
C39_ResolvedFuture ==
    \E f \in 1..MaxFutures :
        /\ reactor.futures[f].st = "ready"
        /\ reactor.futures[f].output = <<reactor.futures[f].msg_id>>


\* ---------------------------------------------------------------------
\* C40
\* ---------------------------------------------------------------------
\* the sockets whose connection attempt has failed and that are still in
\* the map
C40_Failed(t) == {id \in DOMAIN t.sockets : t.sockets[id] = Poisoned}

\* number of times next_event has returned Open(event_id, Err(()))
C40_Reported(event_id) ==
    Cardinality({i \in 1..Len(tcp.events) : tcp.events[i] = <<"Open", event_id, "Err">>})

\* C40: after a connection attempt has failed, next_event returns
\* Open(event_id, Err(())) for it once, and the later calls of next_event
\* do not panic because of the failed socket, whether it has been closed
\* or not.
C40_FailedConnectSurvivable ==
    /\ \A event_id \in 1..MaxEvents : C40_Reported(event_id) <= 1
    /\ ~(last.op = "next_event" /\ last.outcome = "panic" /\ last.result = "Poisoned")

\* the failure of a connection attempt is reported once; a next_event
\* called while no failed socket is in the map panics only when a read or
\* a write fails, and one called while a failed socket is in the map and
\* nothing else is ready before it panics
C40_SurvivableOnceClosed ==
    [][(last'.op = "next_event") =>
        /\ \A event_id \in 1..MaxEvents : C40_Reported(event_id)' <= 1
        /\ (C40_Failed(tcp) = {} /\ crashed') => last'.result = "io"
        /\ (crashed' /\ last'.result = "Poisoned") => C40_Failed(tcp) # {}]_vars

\* a failed socket was closed, and next_event went on to return an event
\* of the other socket
C40_ClosedThenDelivered ==
    /\ last.op = "next_event" /\ last.outcome \in {"Read", "Write"}
    /\ \E i \in 1..Len(tcp.events) : tcp.events[i][1] = "Open" /\ tcp.events[i][3] = "Err"
    /\ C40_Failed(tcp) = {}

====
